---- MODULE Spec2Model ----
(***************************************************************************)
(* Model of the X list summarizer: the paginated list fetch with its       *)
(* per-tweet entity extraction (x_list_summarizer.py), the link            *)
(* aggregation and ranking, the media rows of the HTML report, the LLM     *)
(* provider layer with its retry loop (llm_providers.py), the run          *)
(* orchestration (web_ui.py), and the identifier cache with the list       *)
(* membership lookup of the fetcher.                                       *)
(*                                                                         *)
(* Strings of the program are kept as strings; the substring tests the     *)
(* code performs on them (`'429' in err`, `'t.co/' in link`) are modelled  *)
(* by tables over the finite universes of strings the model uses.          *)
(* Scores are kept doubled (x2) so that the 1.5 weight stays an integer.   *)
(***************************************************************************)
EXTENDS Integers, Sequences, FiniteSets, TLC

VARIABLES
    all_tweets,   \* web_ui: all_tweets, the list handed to aggregate_by_links
    agg,          \* web_ui: agg, the aggregation result (<<>> until computed)
    provider,     \* LLMProvider.provider
    config,       \* LLMProvider.config: [api_key, endpoint], "absent" = key not in dict
    synth,        \* the summarize() call in progress
    ver,          \* the verify() call in progress
    fetch,        \* per task: the fetch_list_tweets coroutine
    run,          \* _run_async_task: position and app_state
    report,       \* the report file the run wrote (<<>> until written)
    prof          \* the fetcher of the membership lookup: its cache and its call

vars == <<all_tweets, agg, provider, config, synth, ver, fetch, run, report, prof>>

----------------------------------------------------------------------------
(* Bounds *)

MaxPosts == 3       \* longest list handed to aggregate_by_links in SpecAgg
MaxTweets == 2      \* config['twitter']['max_tweets'] of the modelled runs
MaxPages == 3       \* page requests one fetch is followed for
MaxRequests == 3    \* POST /api/run requests the threaded server handles at once
MaxRuns == 2        \* run tasks followed while they execute side by side

----------------------------------------------------------------------------
(* URLs and the substring tests on them *)

UrlA      == "https://ex.com/a"
UrlB      == "https://ex.com/b"
UrlX      == "https://x.com/u/status/9"
UrlImg    == "https://pbs.twimg.com/media/m.jpg"
UrlReddit == "https://reddit.com/r/t"
Short1    == "https://t.co/s1"
Short2    == "https://t.co/s2"
Short3    == "https://t.co/s3"

\* `needle in url.lower()` for the needles the code uses
Contains(url, needle) ==
    CASE needle = "x.com"       -> url \in {UrlX}
      [] needle = "twitter.com" -> FALSE
      [] needle = "twimg.com"   -> url \in {UrlImg}
      [] needle = "t.co"        -> url \in {Short1, Short2, Short3, UrlReddit}
      [] needle = "t.co/"       -> url \in {Short1, Short2, Short3}
      [] OTHER                  -> FALSE

\* line 277: any(d in expanded.lower() for d in [...])
LinkFilterDomains == {"x.com", "twitter.com", "twimg.com", "t.co"}

\* variant: the filter list without its 't.co' entry
IsFilteredLinkNoTco(expanded) == \E d \in LinkFilterDomains \ {"t.co"} : Contains(expanded, d)

IsFilteredLink(expanded) == \E d \in LinkFilterDomains : Contains(expanded, d)

----------------------------------------------------------------------------
(* Generic helpers for Python dicts / lists *)

Range(s) == {s[i] : i \in 1..Len(s)}

\* all orders in which Python may iterate a set (list(set(...)))
Perms(S) == {p \in [1..Cardinality(S) -> S] : \A i, j \in 1..Cardinality(S) : p[i] = p[j] => i = j}

\* d[k] = v on an insertion-ordered dict kept as a sequence of [k, v]
DictSet(d, k, v) ==
    IF \E i \in 1..Len(d) : d[i].k = k
    THEN [i \in 1..Len(d) |-> IF d[i].k = k THEN [k |-> k, v |-> v] ELSE d[i]]
    ELSE Append(d, [k |-> k, v |-> v])

----------------------------------------------------------------------------
(* Entity extraction: links (fetch_list_tweets, the per-tweet body) *)

\* An url entity: [url, expanded_url, display_url]; "" stands for a missing value.
\* extract_urls_from(t_obj): fold the entity list into url_map
RECURSIVE extract_urls_from(_, _)
extract_urls_from(urls, url_map) ==
    IF urls = <<>> THEN url_map
    ELSE LET u == Head(urls)
             short == u.url
             expanded == u.expanded_url
         IN  extract_urls_from(Tail(urls),
                 IF short # ""
                 THEN DictSet(url_map, short, IF expanded # "" THEN expanded ELSE short)
                 ELSE url_map)

\* url_map after the three calls: the tweet, its retweeted_tweet, its quote
UrlMapOf(raw) ==
    extract_urls_from(raw.quote_urls,
        extract_urls_from(raw.retweeted_urls,
            extract_urls_from(raw.urls, <<>>)))

\* resolved_links: the expanded values that pass the domain filter
ResolvedLinks(raw) ==
    {e \in {m.v : m \in Range(UrlMapOf(raw))} : ~IsFilteredLink(e)}

\* best[0] of line 298: the video/mp4 variant of highest bitrate, the earliest of
\* equals (sorted() is stable, also with reverse=True); <<>> when there is none
BestVariant(variants) ==
    LET mp4 == SelectSeq(variants, LAMBDA v : v.content_type = "video/mp4")
    IN  IF mp4 = <<>> THEN <<>>
        ELSE <<mp4[CHOOSE i \in 1..Len(mp4) :
                    /\ \A j \in 1..Len(mp4) : mp4[j].bitrate <= mp4[i].bitrate
                    /\ \A j \in 1..(i - 1) : mp4[j].bitrate < mp4[i].bitrate]>>

\* extract_media(t_obj) over the media entities of one tweet object;
\* st = [media, seen_media_ids]. A media dict without 'thumbnail' has thumbnail "".
RECURSIVE extract_media(_, _)
extract_media(ms, st) ==
    IF ms = <<>> THEN st
    ELSE LET m == Head(ms)
             best == BestVariant(m.variants)
             added ==
                IF m.type = "photo"
                THEN <<[type |-> "photo", url |-> m.media_url_https, thumbnail |-> "", id |-> m.id_str]>>
                ELSE IF m.type \in {"video", "animated_gif"} /\ best # <<>>
                     THEN <<[type |-> m.type, url |-> best[1].url,
                             thumbnail |-> m.media_url_https, id |-> m.id_str]>>
                     ELSE <<>>
         IN  extract_media(Tail(ms),
                 IF m.id_str \in st.seen THEN st
                 ELSE [media |-> st.media \o added, seen |-> st.seen \cup {m.id_str}])

\* variant: only the tweet's own media entities are read
MediaOfOwnOnly(raw) ==
    extract_media(raw.media, [media |-> <<>>, seen |-> {}]).media

\* variant: the quote is read first, then the retweeted_tweet, then the tweet
MediaOfQuoteFirst(raw) ==
    extract_media(raw.media,
        extract_media(raw.retweeted_media,
            extract_media(raw.quote_media, [media |-> <<>>, seen |-> {}]))).media

\* lines 281-306: media after the three calls: the tweet, its retweeted_tweet, its quote
MediaOf(raw) ==
    extract_media(raw.quote_media,
        extract_media(raw.retweeted_media,
            extract_media(raw.media, [media |-> <<>>, seen |-> {}]))).media

\* extract_card(t_obj), lines 310-330: the card when it has a title, else None (<<>>)
extract_card(card) ==
    IF card = <<>> THEN <<>>
    ELSE IF card[1].title # "" THEN card ELSE <<>>

\* lines 332-336: the tweet's own card, else the card of its retweeted_status,
\* else of its quoted_status, each read only when the object has the attribute
CardOf(raw) ==
    LET own == extract_card(raw.card)
        rt  == IF own = <<>> /\ raw.has_status_attrs THEN extract_card(raw.retweeted_card) ELSE own
    IN  IF rt = <<>> /\ raw.has_status_attrs THEN extract_card(raw.quote_card) ELSE rt

\* display_map (line 270) for the entities the three extract_urls_from calls read:
\* u.get('display_url', expanded or short); a later entry for a short replaces the earlier
RECURSIVE display_map_from(_, _)
display_map_from(urls, display_map) ==
    IF urls = <<>> THEN display_map
    ELSE LET u == Head(urls)
             fallback == IF u.expanded_url # "" THEN u.expanded_url ELSE u.url
         IN  display_map_from(Tail(urls),
                 IF u.url # ""
                 THEN DictSet(display_map, u.url, IF u.display_url # "" THEN u.display_url ELSE fallback)
                 ELSE display_map)

DisplayMapOf(raw) ==
    display_map_from(raw.quote_urls,
        display_map_from(raw.retweeted_urls,
            display_map_from(raw.urls, <<>>)))

DictGet(d, k) == (CHOOSE e \in Range(d) : e.k = k).v

\* line 343: the domains that make a link internal for the text
TextFilterDomains == {"x.com", "twitter.com", "twimg.com"}

\* line 343: tgt, what a short link is replaced by in the text
ReplacementTarget(raw, short, expanded) ==
    IF ~(\E d \in TextFilterDomains : Contains(expanded, d))
    THEN expanded
    ELSE DictGet(DisplayMapOf(raw), short)

\* lines 339-344: clean_text; a text is kept as the sequence of its tokens and
\* str.replace acts on the tokens that are the short link
RECURSIVE clean_text(_, _, _)
clean_text(raw, text, items) ==
    IF items = <<>> THEN text
    ELSE LET short == Head(items).k
             tgt == ReplacementTarget(raw, short, Head(items).v)
         IN  clean_text(raw, [i \in 1..Len(text) |-> IF text[i] = short THEN tgt ELSE text[i]],
                        Tail(items))

\* the tweet dicts the loop may append for one raw tweet (one per set order)
ExtractTweet(raw) ==
    {[id |-> raw.id, text |-> clean_text(raw, raw.text, UrlMapOf(raw)),
      links |-> l, media |-> MediaOf(raw), card |-> CardOf(raw),
      likes |-> raw.favorite_count, retweets |-> raw.retweet_count,
      replies |-> raw.reply_count, quotes |-> raw.quote_count,
      bookmarks |-> raw.bookmark_count] : l \in Perms(ResolvedLinks(raw))}

\* list(resolved_links), line 348: the iteration order of a set of str follows
\* the string hashes of the interpreter process. A hash seed is kept as the
\* order it induces on the external urls.
HashSeeds == Perms({UrlA, UrlB})

\* the one tweet dict a process of the given hash seed appends
ExtractTweetIn(raw, seed) ==
    CHOOSE t \in ExtractTweet(raw) :
        t.links = SelectSeq(seed, LAMBDA u : u \in ResolvedLinks(raw))

----------------------------------------------------------------------------
(* Raw tweets the remote endpoint may return *)

\* the display_url the platform gives for an expanded url ("" when it gives none)
DisplayOf(expanded) ==
    CASE expanded = UrlA      -> "ex.com/a"
      [] expanded = UrlB      -> "ex.com/b"
      [] expanded = UrlX      -> "x.com/u/status/9"
      [] expanded = UrlReddit -> "reddit.com/r/t"
      [] OTHER                -> ""

Ent(short, expanded) == [url |-> short, expanded_url |-> expanded, display_url |-> DisplayOf(expanded)]

\* full_text of a tweet with these url entities: a word, then the short links
TextOf(urls) == <<"look:">> \o [i \in 1..Len(urls) |-> urls[i].url]

RawTweet(id, urls, rt, q, l, r, p, qc, b) ==
    [id |-> id, urls |-> urls, retweeted_urls |-> rt, quote_urls |-> q,
     media |-> <<>>, retweeted_media |-> <<>>, quote_media |-> <<>>,
     text |-> TextOf(urls), card |-> <<>>, retweeted_card |-> <<>>, quote_card |-> <<>>,
     has_status_attrs |-> FALSE, media_is_null |-> FALSE,
     favorite_count |-> l, retweet_count |-> r, reply_count |-> p,
     quote_count |-> qc, bookmark_count |-> b]

\* the same tweet with cards: its own, its retweeted_tweet's, its quote's
WithCards(raw, own, rt, q) ==
    [raw EXCEPT !.card = own, !.retweeted_card = rt, !.quote_card = q]

Card(title) == <<[title |-> title, description |-> "about", image |-> "https://pbs.twimg.com/card/c.jpg"]>>

\* the same tweet as an object that also answers to retweeted_status and
\* quoted_status (giving its retweeted_tweet and its quote)
WithStatusAttrs(raw) == [raw EXCEPT !.has_status_attrs = TRUE]

\* the same tweet with extended_entities.media null: `for m in None` raises
WithNullMedia(raw) == [raw EXCEPT !.media_is_null = TRUE]

\* the same tweet with media entities: its own, its retweeted_tweet's, its quote's
WithMedia(raw, own, rt, q) ==
    [raw EXCEPT !.media = own, !.retweeted_media = rt, !.quote_media = q]

Variant(content_type, bitrate, url) == [content_type |-> content_type, bitrate |-> bitrate, url |-> url]

Photo1 == [id_str |-> "m1", type |-> "photo", media_url_https |-> "https://pbs.twimg.com/media/p1.jpg",
           variants |-> <<>>]
Photo2 == [id_str |-> "m2", type |-> "photo", media_url_https |-> "https://pbs.twimg.com/media/p2.jpg",
           variants |-> <<>>]
Video1 == [id_str |-> "m3", type |-> "video", media_url_https |-> "https://pbs.twimg.com/thumb/v1.jpg",
           variants |-> <<Variant("application/x-mpegURL", 0, "https://video.twimg.com/v1.m3u8"),
                          Variant("video/mp4", 256, "https://video.twimg.com/v1-lo.mp4"),
                          Variant("video/mp4", 832, "https://video.twimg.com/v1-hi.mp4")>>]

RawCatalog ==
    { RawTweet(1, <<Ent(Short1, UrlA)>>, <<>>, <<>>, 10, 2, 1, 0, 0),
      RawTweet(2, <<Ent(Short1, UrlA)>>, <<>>, <<>>, 5, 0, 0, 0, 0),
      RawTweet(3, <<>>, <<>>, <<>>, 7, 0, 0, 0, 0),
      RawTweet(4, <<Ent(Short1, UrlA), Ent(Short2, UrlB)>>, <<>>, <<>>, 1, 1, 0, 0, 0),
      RawTweet(5, <<Ent(Short1, UrlX), Ent(Short2, "")>>, <<>>, <<>>, 3, 0, 0, 0, 0),
      RawTweet(6, <<Ent(Short3, UrlReddit)>>, <<Ent(Short2, UrlB)>>, <<>>, 0, 0, 0, 9, 11),
      RawTweet(7, <<>>, <<>>, <<Ent(Short3, UrlReddit)>>, 2, 0, 4, 0, 0),
      \* 8 is a pure reshare of 9: no entities of its own
      WithMedia(RawTweet(8, <<>>, <<Ent(Short1, UrlA)>>, <<>>, 0, 4, 0, 0, 0), <<>>, <<Photo1>>, <<>>),
      WithMedia(RawTweet(9, <<Ent(Short1, UrlA)>>, <<>>, <<>>, 6, 4, 0, 0, 0), <<Photo1>>, <<>>, <<>>),
      \* 11 quotes 10 and adds a photo of its own
      WithMedia(RawTweet(10, <<Ent(Short2, UrlB)>>, <<>>, <<>>, 2, 0, 0, 1, 0), <<Video1>>, <<>>, <<>>),
      WithMedia(RawTweet(11, <<>>, <<>>, <<Ent(Short2, UrlB)>>, 1, 0, 0, 0, 0), <<Photo2>>, <<>>, <<Video1>>) }

Posts == UNION {ExtractTweet(raw) : raw \in RawCatalog}

\* the same media identifier under another url, as an embedded tweet repeats it
Again(m) == [m EXCEPT !.media_url_https = "https://pbs.twimg.com/media/again.jpg"]

\* further payloads of the page loop
MoreRaw ==
    { \* 12: one media identifier in the tweet, its retweeted_tweet and its quote
      WithMedia(RawTweet(12, <<Ent(Short1, UrlA)>>, <<>>, <<>>, 1, 0, 0, 0, 0),
                <<Photo1>>, <<Again(Photo1), Photo2>>, <<Again(Photo2), Again(Photo1)>>),
      \* 13: media is null
      WithNullMedia(RawTweet(13, <<Ent(Short2, UrlB)>>, <<>>, <<>>, 4, 0, 0, 0, 0)),
      \* 14: a reshare whose retweeted_tweet carries the card
      WithCards(RawTweet(14, <<>>, <<Ent(Short1, UrlA)>>, <<>>, 0, 3, 0, 0, 0), <<>>, Card("Title"), <<>>),
      \* 15: a card of its own, 16: a card without title
      WithCards(RawTweet(15, <<Ent(Short2, UrlB)>>, <<>>, <<>>, 2, 0, 0, 0, 0), Card("Own"), <<>>, <<>>),
      WithCards(RawTweet(16, <<Ent(Short2, UrlB)>>, <<>>, <<>>, 2, 0, 0, 0, 0), Card(""), <<>>, <<>>),
      \* 17: as 14, on an object that has the retweeted_status attribute
      WithStatusAttrs(WithCards(RawTweet(17, <<>>, <<Ent(Short1, UrlA)>>, <<>>, 0, 3, 0, 0, 0),
                                <<>>, Card("Title"), <<>>)) }

----------------------------------------------------------------------------
(* Aggregation and ranking (aggregate_by_links) *)

\* the sort key of one tweet, doubled: 2*(likes + 1.5*retweets + 2.0*replies + quotes + bookmarks)
Engagement2(t) == 2 * t.likes + 3 * t.retweets + 4 * t.replies + 2 * t.quotes + 2 * t.bookmarks

RECURSIVE SumEngagement2(_)
SumEngagement2(ts) == IF ts = <<>> THEN 0 ELSE Engagement2(Head(ts)) + SumEngagement2(Tail(ts))

\* by_link[link].append(t) on the insertion-ordered defaultdict(list)
ByLinkAppend(by_link, link, t) ==
    IF \E i \in 1..Len(by_link) : by_link[i].link = link
    THEN [i \in 1..Len(by_link) |->
            IF by_link[i].link = link
            THEN [link |-> link, tweets |-> Append(by_link[i].tweets, t)]
            ELSE by_link[i]]
    ELSE Append(by_link, [link |-> link, tweets |-> <<t>>])

\* line 379: skip unresolved t.co short URLs
SkipLink(link) == Contains(link, "t.co/")

\* variant: only the first link of a tweet is grouped
GroupFirstLinkOnly(by_link, links, t) ==
    IF links = <<>> \/ SkipLink(Head(links)) THEN by_link ELSE ByLinkAppend(by_link, Head(links), t)

\* the inner loop `for link in t['links']`
RECURSIVE GroupLinks(_, _, _)
GroupLinks(by_link, links, t) ==
    IF links = <<>> THEN by_link
    ELSE GroupLinks(IF SkipLink(Head(links)) THEN by_link ELSE ByLinkAppend(by_link, Head(links), t),
                    Tail(links), t)

\* the slices generate_html_report takes of the aggregation
GroupCap == 20          \* aggregated['by_link'][:20]
TweetsPerGroup == 5     \* tweets[:5]
IndividualCap == 30     \* aggregated['no_links'][:30]

\* variant: no_links stops growing at the length the report shows
RECURSIVE GroupTweetsCapped(_, _)
GroupTweetsCapped(st, tweets) ==
    IF tweets = <<>> THEN st
    ELSE LET t == Head(tweets)
         IN  GroupTweetsCapped(
                 IF t.links # <<>>
                 THEN [st EXCEPT !.by_link = GroupLinks(st.by_link, t.links, t)]
                 ELSE IF Len(st.no_links) < IndividualCap
                      THEN [st EXCEPT !.no_links = Append(st.no_links, t)]
                      ELSE st,
                 Tail(tweets))

\* variant: the else branch that fills no_links is missing
RECURSIVE GroupTweetsNoBucket(_, _)
GroupTweetsNoBucket(st, tweets) ==
    IF tweets = <<>> THEN st
    ELSE LET t == Head(tweets)
         IN  GroupTweetsNoBucket(
                 IF t.links # <<>>
                 THEN [st EXCEPT !.by_link = GroupLinks(st.by_link, t.links, t)]
                 ELSE st,
                 Tail(tweets))

\* the outer loop `for t in tweets`: st = [by_link, no_links]
RECURSIVE GroupTweets(_, _)
GroupTweets(st, tweets) ==
    IF tweets = <<>> THEN st
    ELSE LET t == Head(tweets)
         IN  GroupTweets(
                 IF t.links # <<>>
                 THEN [st EXCEPT !.by_link = GroupLinks(st.by_link, t.links, t)]
                 ELSE [st EXCEPT !.no_links = Append(st.no_links, t)],
                 Tail(tweets))

\* variant: sorted() without reverse=True, ascending
RECURSIVE InsertAsc(_, _)
InsertAsc(sorted, g) ==
    IF sorted = <<>> THEN <<g>>
    ELSE IF SumEngagement2(Head(sorted).tweets) <= SumEngagement2(g.tweets)
         THEN <<Head(sorted)>> \o InsertAsc(Tail(sorted), g)
         ELSE <<g>> \o sorted

\* variant: descending, but a group goes before the groups of equal key
\* (an ascending sort that is then reversed)
RECURSIVE InsertDescTiesFirst(_, _)
InsertDescTiesFirst(sorted, g) ==
    IF sorted = <<>> THEN <<g>>
    ELSE IF SumEngagement2(Head(sorted).tweets) > SumEngagement2(g.tweets)
         THEN <<Head(sorted)>> \o InsertDescTiesFirst(Tail(sorted), g)
         ELSE <<g>> \o sorted

\* sorted(..., key=score, reverse=True): stable, descending. Insert g after every
\* element whose key is >= its own.
RECURSIVE InsertDesc(_, _)
InsertDesc(sorted, g) ==
    IF sorted = <<>> THEN <<g>>
    ELSE IF SumEngagement2(Head(sorted).tweets) >= SumEngagement2(g.tweets)
         THEN <<Head(sorted)>> \o InsertDesc(Tail(sorted), g)
         ELSE <<g>> \o sorted

RECURSIVE SortedDesc(_, _)
SortedDesc(items, acc) ==
    IF items = <<>> THEN acc ELSE SortedDesc(Tail(items), InsertDesc(acc, Head(items)))

aggregate_by_links(tweets) ==
    LET st == GroupTweets([by_link |-> <<>>, no_links |-> <<>>], tweets)
    IN  [by_link |-> SortedDesc(st.by_link, <<>>), no_links |-> st.no_links]

----------------------------------------------------------------------------
(* The report (generate_html_report, _build_media_html) *)

Take(s, n) == SubSeq(s, 1, IF Len(s) < n THEN Len(s) ELSE n)

\* line 421: m.get('thumbnail') or m.get('url')
url_key(m) == IF m.thumbnail # "" THEN m.thumbnail ELSE m.url

\* lines 427-447: the element one media dict is rendered as, <<>> when none is
MediaElement(m) ==
    CASE m.type = "photo"        -> <<[el |-> "img", src |-> m.url, m |-> m]>>
      [] m.type = "animated_gif" -> <<[el |-> "video", src |-> m.url, m |-> m]>>
      [] m.type = "video" /\ m.thumbnail # "" -> <<[el |-> "a", src |-> m.thumbnail, m |-> m]>>
      [] OTHER                   -> <<>>

\* variant: no media dict is skipped as already shown
RECURSIVE _build_media_html_no_dedup(_, _)
_build_media_html_no_dedup(media, seen_urls) ==
    IF media = <<>> THEN [html_parts |-> <<>>, seen_urls |-> seen_urls]
    ELSE LET rest == _build_media_html_no_dedup(Tail(media), seen_urls)
         IN  [html_parts |-> MediaElement(Head(media)) \o rest.html_parts, seen_urls |-> seen_urls]

\* _build_media_html(tweet, seen_urls) over tweet['media']; seen_urls is <<>> for
\* None and <<S>> for the set S, and is handed back as the call leaves it
RECURSIVE _build_media_html(_, _)
_build_media_html(media, seen_urls) ==
    IF media = <<>> THEN [html_parts |-> <<>>, seen_urls |-> seen_urls]
    ELSE LET m == Head(media)
             skip == seen_urls # <<>> /\ url_key(m) \in seen_urls[1]
             seen1 == IF seen_urls = <<>> \/ skip THEN seen_urls
                      ELSE <<seen_urls[1] \cup {url_key(m)}>>
             rest == _build_media_html(Tail(media), seen1)
         IN  [html_parts |-> (IF skip THEN <<>> ELSE MediaElement(m)) \o rest.html_parts,
              seen_urls |-> rest.seen_urls]

\* lines 550-567: the tweets of one group's expand row, sharing group_seen_media
RECURSIVE RenderGroupTweets(_, _)
RenderGroupTweets(tweets, group_seen_media) ==
    IF tweets = <<>> THEN <<>>
    ELSE LET r == _build_media_html(Head(tweets).media, group_seen_media)
         IN  <<[id |-> Head(tweets).id, media_html |-> r.html_parts]>>
             \o RenderGroupTweets(Tail(tweets), r.seen_urls)

\* lines 538-620: the rows of the table and the individual tweets section
generate_html_report(aggregated) ==
    LET by_link == Take(aggregated.by_link, GroupCap)
        no_links == Take(aggregated.no_links, IndividualCap)
    IN  [table_rows |->
            [i \in 1..Len(by_link) |->
                [link |-> by_link[i].link, count |-> Len(by_link[i].tweets),
                 tweet_list |-> RenderGroupTweets(Take(by_link[i].tweets, TweetsPerGroup), <<{}>>)]],
         individual |->
            [i \in 1..Len(no_links) |->
                [id |-> no_links[i].id,
                 media_html |-> _build_media_html(no_links[i].media, <<>>).html_parts]]]

----------------------------------------------------------------------------
(* Provider abstraction: configuration (LLMProvider.__init__, _get_effective_config) *)

CompatProviders ==
    {"lmstudio", "vllm", "generic_openai", "groq", "gemini", "deepseek", "openrouter", "grok"}

\* identifiers summarize() dispatches on, plus one it does not know
KnownProviders ==
    {"ollama", "claude", "openai"} \cup CompatProviders \cup {"llamacpp", "koboldai", "textgenwebui"}

Providers == KnownProviders \cup {"mistral"}

\* self.config: "absent" = the key is not in the dict, "" = configured empty
Configs ==
    [api_key : {"absent", "", "sk-key"},
     endpoint : {"absent", "", "http://host:9000/v1", "https://api.openai.com/v1"}]

\* Python truthiness of a str
Truthy(s) == s # ""

\* cfg.get(key, default)
CfgGet(value, default) == IF value = "absent" THEN default ELSE value

_get_effective_config(prov, cfg) ==
    LET endpoint0 == CfgGet(cfg.endpoint, "")
        api_key   == CfgGet(cfg.api_key, "not-needed")
        endpoint  ==
            CASE prov = "openai" -> "https://api.openai.com/v1"
              [] prov = "groq" ->
                    \* line 34: not endpoint or 'api.openai.com' in endpoint
                    IF ~Truthy(endpoint0) \/ endpoint0 = "https://api.openai.com/v1"
                    THEN "https://api.groq.com/openai/v1" ELSE endpoint0
              [] prov = "gemini" ->
                    IF ~Truthy(endpoint0)
                    THEN "https://generativelanguage.googleapis.com/v1beta/openai/" ELSE endpoint0
              [] prov = "deepseek" ->
                    IF ~Truthy(endpoint0) THEN "https://api.deepseek.com" ELSE endpoint0
              [] prov = "openrouter" ->
                    IF ~Truthy(endpoint0) THEN "https://openrouter.ai/api/v1" ELSE endpoint0
              [] prov = "grok" ->
                    IF ~Truthy(endpoint0) THEN "https://api.x.ai/v1" ELSE endpoint0
              [] prov = "claude" -> endpoint0
              [] OTHER ->
                    IF Truthy(endpoint0) THEN endpoint0
                    ELSE CASE prov = "ollama"   -> "http://localhost:11434"
                           [] prov = "lmstudio" -> "http://localhost:1234/v1"
                           [] OTHER             -> "http://localhost:8000/v1"
    IN  [endpoint |-> endpoint, api_key |-> api_key]

----------------------------------------------------------------------------
(* Remote text-generation endpoint: what one call may answer *)

RespOK == "ok"
RespEmpty == "ok: empty text"       \* a well-formed answer whose generated text is ''

Msg429      == "error code: 429 too many requests"
MsgRateCode == "rate_limit_exceeded"
MsgRetry20  == "error code: 429 retry after 20s"
MsgRetry70  == "error code: 429 retry-after: 70"
Msg401      == "error code: 401 invalid api key"
MsgContext  == "context_length_exceeded"
MsgMaxCtx   == "this model's maximum context length is 8192 tokens"
MsgTimeout  == "connection timed out"
Msg404      == "error code: 404 model not found"
Msg500      == "error code: 500 internal server error"

ErrMsgs == {Msg429, MsgRateCode, MsgRetry20, MsgRetry70, Msg401, MsgContext, MsgMaxCtx, MsgTimeout, Msg500}

Responses == {RespOK, RespEmpty} \cup ErrMsgs

\* `needle in str(e).lower()` for the needles the provider layer uses
MsgContains(msg, needle) ==
    CASE needle = "rate_limit"      -> msg \in {MsgRateCode}
      [] needle = "429"             -> msg \in {Msg429, MsgRetry20, MsgRetry70}
      [] needle = "401"             -> msg \in {Msg401}
      [] needle = "api key"         -> msg \in {Msg401}
      [] needle = "404"             -> msg \in {Msg404}
      [] needle = "not found"       -> msg \in {Msg404}
      [] needle = "context_length"  -> msg \in {MsgContext}
      [] needle = "maximum context" -> msg \in {MsgMaxCtx}
      [] OTHER                      -> FALSE

\* re.search(r'retry.after[^\d]*(\d+)', msg): the captured number, -1 when no match
RetryAfterMatch(msg) ==
    CASE msg = MsgRetry20 -> 20
      [] msg = MsgRetry70 -> 70
      [] OTHER            -> -1

Min(a, b) == IF a <= b THEN a ELSE b

----------------------------------------------------------------------------
(* summarize() and the backends *)

\* a returned str is kept as the sequence of the pieces of its f-string
GeneratedText == <<"linkdomain.com :: generated summary">>

\* summary.startswith("Error") (web_ui line 365)
StartsWithError(s) == s # <<>> /\ s[1] \in {"Error with ", "Error: "}

Returned(value) == <<[kind |-> "return", value |-> value]>>
Raised(exc)     == <<[kind |-> "raise", value |-> <<exc>>]>>

\* endpoint is the resolved endpoint the backend's calls go to ("" before it is resolved)
SynthIdle ==
    [pc |-> "idle", attempt |-> 0, calls |-> 0, waits |-> <<>>, history |-> <<>>, outcome |-> <<>>,
     endpoint |-> ""]

\* the backend summarize() routes to (lines 126-141)
Route(prov) ==
    CASE prov = "ollama"       -> "_ollama"
      [] prov = "claude"       -> "_claude"
      [] prov = "openai"       -> "_openai"
      [] prov \in CompatProviders -> "_openai_compatible"
      [] prov = "llamacpp"     -> "_llamacpp"
      [] prov = "koboldai"     -> "_koboldai"
      [] prov = "textgenwebui" -> "_textgen_webui"
      [] OTHER                 -> "unknown"

\* the name each single-call backend puts in its failure string
BackendLabel(route) ==
    CASE route = "_ollama"        -> "Ollama"
      [] route = "_claude"        -> "Claude API"
      [] route = "_openai"        -> "OpenAI API"
      [] route = "_llamacpp"      -> "llama.cpp"
      [] route = "_koboldai"      -> "KoboldAI"
      [] OTHER                    -> "Text Generation WebUI"

\* the advice each single-call backend appends to its failure string (none for the hosted two)
BackendHint(route) ==
    CASE route = "_ollama"        -> <<"Please check that Ollama is running and the model is installed.">>
      [] route = "_llamacpp"      -> <<"Please check that llama.cpp server is running at the endpoint.">>
      [] route = "_koboldai"      -> <<"Please check that KoboldAI is running at the endpoint.">>
      [] route = "_textgen_webui" -> <<"Please check that the server is running at the endpoint.">>
      [] OTHER                    -> <<>>

max_attempts == 3
retry_delays == <<15, 30>>

\* summarize(): build the prompt, dispatch, and run the backend up to its first remote call
summarize_begin(prov, cfg) ==
    LET route == Route(prov)
        eff   == _get_effective_config(prov, cfg)
    IN  CASE route = "unknown" ->
                [SynthIdle EXCEPT !.pc = "done", !.outcome = Raised("ValueError: Unknown provider")]
          [] route = "_claude" /\ ~Truthy(eff.api_key) ->
                [SynthIdle EXCEPT !.pc = "done", !.endpoint = eff.endpoint,
                    !.outcome = Returned(<<"Error: ", "Claude API key not configured.">>)]
          [] route = "_openai" /\ ~Truthy(eff.api_key) ->
                [SynthIdle EXCEPT !.pc = "done", !.endpoint = eff.endpoint,
                    !.outcome = Returned(<<"Error: ", "OpenAI API key not configured.">>)]
          [] OTHER -> [SynthIdle EXCEPT !.pc = "call", !.endpoint = eff.endpoint]

\* variant: the generic failure string leaves the error text out
final_failure_no_text(prov, msg, is_rate_limit) ==
    IF is_rate_limit
    THEN IF prov = "gemini"
         THEN Returned(<<"Error with ", "gemini", ": Rate limited (free tier has low RPM).">>)
         ELSE Returned(<<"Error with ", prov, ": Rate limited after 3 attempts.">>)
    ELSE IF MsgContains(msg, "context_length") \/ MsgContains(msg, "maximum context")
         THEN Returned(<<"Error with ", prov, ": Prompt too large for this model's context window.">>)
         ELSE Returned(<<"Error with ", prov, ": ", "Please check your settings and connection.">>)

\* lines 271-279: the failure string of the final or non-retriable attempt
final_failure(prov, msg, is_rate_limit) ==
    IF is_rate_limit
    THEN IF prov = "gemini"
         THEN Returned(<<"Error with ", "gemini", ": Rate limited (free tier has low RPM).">>)
         ELSE Returned(<<"Error with ", prov, ": Rate limited after 3 attempts.">>)
    ELSE IF MsgContains(msg, "context_length") \/ MsgContains(msg, "maximum context")
         THEN Returned(<<"Error with ", prov, ": Prompt too large for this model's context window.">>)
         ELSE Returned(<<"Error with ", prov, ": ", msg, "Please check your settings and connection.">>)

\* variant: every retry waits the first delay of the schedule
_openai_compatible_except_flat(prov, s, msg) ==
    LET is_rate_limit == MsgContains(msg, "rate_limit") \/ MsgContains(msg, "429")
    IN  IF is_rate_limit /\ s.attempt < max_attempts - 1
        THEN LET hint == RetryAfterMatch(msg)
                 wait == IF hint >= 0 THEN Min(hint + 2, 60) ELSE retry_delays[1]
             IN  [s EXCEPT !.pc = "sleep", !.waits = Append(@, wait)]
        ELSE [s EXCEPT !.pc = "done", !.outcome = final_failure(prov, msg, is_rate_limit)]

\* variant: every failed attempt but the last is retried, whatever its error
_openai_compatible_except_retry_all(prov, s, msg) ==
    LET is_rate_limit == MsgContains(msg, "rate_limit") \/ MsgContains(msg, "429")
    IN  IF s.attempt < max_attempts - 1
        THEN LET hint == RetryAfterMatch(msg)
                 wait == IF hint >= 0 THEN Min(hint + 2, 60) ELSE retry_delays[s.attempt + 1]
             IN  [s EXCEPT !.pc = "sleep", !.waits = Append(@, wait)]
        ELSE [s EXCEPT !.pc = "done", !.outcome = final_failure(prov, msg, is_rate_limit)]

\* variant: the hinted wait is taken as it is, without the ceiling
_openai_compatible_except_uncapped(prov, s, msg) ==
    LET is_rate_limit == MsgContains(msg, "rate_limit") \/ MsgContains(msg, "429")
    IN  IF is_rate_limit /\ s.attempt < max_attempts - 1
        THEN LET hint == RetryAfterMatch(msg)
                 wait == IF hint >= 0 THEN hint + 2 ELSE retry_delays[s.attempt + 1]
             IN  [s EXCEPT !.pc = "sleep", !.waits = Append(@, wait)]
        ELSE [s EXCEPT !.pc = "done", !.outcome = final_failure(prov, msg, is_rate_limit)]

\* lines 256-279: the except branch of one attempt of _openai_compatible
_openai_compatible_except(prov, s, msg) ==
    LET is_rate_limit == MsgContains(msg, "rate_limit") \/ MsgContains(msg, "429")
    IN  IF is_rate_limit /\ s.attempt < max_attempts - 1
        THEN LET hint == RetryAfterMatch(msg)
                 wait == IF hint >= 0 THEN Min(hint + 2, 60) ELSE retry_delays[s.attempt + 1]
             IN  [s EXCEPT !.pc = "sleep", !.waits = Append(@, wait)]
        ELSE [s EXCEPT !.pc = "done", !.outcome = final_failure(prov, msg, is_rate_limit)]

\* one remote call of the backend in progress and what the backend does with its answer
provider_call(prov, s, resp) ==
    LET s1 == [s EXCEPT !.calls = @ + 1, !.history = Append(@, resp)]
    IN  IF resp \in {RespOK, RespEmpty}
        THEN [s1 EXCEPT !.pc = "done",
                !.outcome = Returned(IF resp = RespOK THEN GeneratedText ELSE <<>>)]
        ELSE IF Route(prov) = "_openai_compatible"
             THEN _openai_compatible_except(prov, s1, resp)
             ELSE [s1 EXCEPT !.pc = "done",
                    !.outcome = Returned(<<"Error with ", BackendLabel(Route(prov)), ": ", resp>>
                                         \o BackendHint(Route(prov)))]

\* time.sleep(wait) returns; `continue` starts the next attempt
after_sleep(s) == [s EXCEPT !.pc = "call", !.attempt = @ + 1]

----------------------------------------------------------------------------
(* verify() *)

RespNoModel == "ok: configured model not in the listing"

VerifyResponses == {RespOK, RespNoModel, Msg401, Msg429, Msg404, MsgTimeout}

\* answers records what each remote call of the verify() in progress was answered
VerIdle == [pc |-> "idle", netcalls |-> 0, answers |-> <<>>, result |-> <<>>]

Status(active, message) == <<[active |-> active, message |-> message]>>

\* providers verify() checks through the OpenAI client (line 74)
VerifyClientProviders == (CompatProviders \cup {"openai"})

\* verify() up to its first remote call (or to its return when it makes none)
verify_begin(prov, cfg) ==
    LET eff == _get_effective_config(prov, cfg)
    IN  CASE prov = "ollama" -> [VerIdle EXCEPT !.pc = "tags"]
          [] prov \in VerifyClientProviders ->
                [VerIdle EXCEPT !.pc = IF prov = "gemini" THEN "models" ELSE "chat"]
          [] prov = "claude" ->
                [VerIdle EXCEPT !.pc = "done", !.result =
                    IF ~Truthy(eff.api_key) THEN Status(FALSE, "Missing API Key")
                    ELSE Status(TRUE, "Ready")]
          [] OTHER -> [VerIdle EXCEPT !.pc = "done", !.result = Status(TRUE, "Provider check skipped")]

\* lines 96-101: the except branch of the OpenAI-client check
verify_except(msg) ==
    CASE MsgContains(msg, "401") \/ MsgContains(msg, "api key") -> Status(FALSE, "Invalid API Key")
      [] MsgContains(msg, "rate_limit") \/ MsgContains(msg, "429") ->
                Status(FALSE, "Rate limited - key is valid, try again shortly")
      [] MsgContains(msg, "404") \/ MsgContains(msg, "not found") -> Status(FALSE, "Model not found")
      [] OTHER -> Status(FALSE, "Connection failed")

\* one remote call of verify() and what verify() does with its answer
verify_call(v, resp) ==
    LET v1 == [v EXCEPT !.netcalls = @ + 1, !.answers = Append(@, resp)]
        ok == resp \in {RespOK, RespNoModel}
    IN  CASE v.pc = "tags" ->
                \* requests.get without raise_for_status: any HTTP answer passes
                IF resp = MsgTimeout
                THEN [v1 EXCEPT !.pc = "done", !.result = Status(FALSE, "Ollama Error: Check if model is pulled.")]
                ELSE [v1 EXCEPT !.pc = "generate"]
          [] v.pc = "generate" ->
                IF resp = MsgTimeout
                THEN [v1 EXCEPT !.pc = "done", !.result = Status(FALSE, "Ollama Error: Check if model is pulled.")]
                ELSE [v1 EXCEPT !.pc = "done", !.result = Status(TRUE, "Ready")]
          [] v.pc = "models" ->
                [v1 EXCEPT !.pc = "done", !.result =
                    IF resp = RespOK THEN Status(TRUE, "Ready")
                    ELSE IF resp = RespNoModel THEN Status(FALSE, "Model not found")
                    ELSE verify_except(resp)]
          [] OTHER ->
                [v1 EXCEPT !.pc = "done", !.result =
                    IF ok THEN Status(TRUE, "Ready") ELSE verify_except(resp)]

----------------------------------------------------------------------------
(* Remote list endpoints: what one call may answer *)

F401     == "status: 401, message: Could not authenticate you"
F429     == "status: 429, message: Rate limit exceeded"
FTimeout == "ReadTimeout"
F500     == "status: 500, message: Internal Server Error"

FetchErrs == {F401, F429, FTimeout, F500}

\* `needle in err` / `needle in err.lower()` for the needles the fetch layer uses
ErrContains(err, needle) ==
    CASE needle = "429"          -> err \in {F429}
      [] needle = "rate limit"   -> err \in {F429}
      [] needle = "401"          -> err \in {F401}
      [] needle = "unauthorized" -> FALSE
      [] OTHER                   -> FALSE

IsRateLimitErr(err) == ErrContains(err, "429") \/ ErrContains(err, "rate limit")
IsAuthErr(err)      == ErrContains(err, "401") \/ ErrContains(err, "unauthorized")

Raw(id) == CHOOSE r \in RawCatalog \cup MoreRaw : r.id = id

\* str(e) of the exception extraction raises on a null media list
ExtractErr == "'NoneType' object is not iterable"

\* the batches get_list_tweets may answer with, and the cursors that come with them
Batches == {<<>>, <<Raw(1)>>, <<Raw(3), Raw(2)>>}
Cursors == {"", "cursor-A", "cursor-B"}

PageResponses == [batch : Batches, next_cursor : Cursors]

\* pages of tweets with two, one and no external link
PureResponses == [batch : {<<Raw(4)>>, <<Raw(1), Raw(4)>>, <<Raw(5)>>}, next_cursor : Cursors]

\* pages of one tweet, for every tweet of the catalog
CatalogResponses ==
    [batch : {<<>>, <<Raw(13), Raw(1)>>} \cup {<<r>> : r \in RawCatalog \cup MoreRaw}, next_cursor : Cursors]

\* get_list answers: with an owner object, without one, or an error
MetaResponses == {"ok", "ok+owner"} \cup FetchErrs

\* does the per-tweet loop raise on this batch?
BatchRaises(batch) == \E i \in 1..Len(batch) : batch[i].media_is_null

\* the tweet dicts the per-tweet loop appends for one batch: all of them, or
\* those before the tweet extraction raises on
RECURSIVE ExtractBatch(_, _)
ExtractBatch(batch, seed) ==
    IF batch = <<>> \/ Head(batch).media_is_null THEN <<>>
    ELSE <<ExtractTweetIn(Head(batch), seed)>> \o ExtractBatch(Tail(batch), seed)

RECURSIVE Ids(_)
Ids(ts) == IF ts = <<>> THEN <<>> ELSE <<Head(ts).id>> \o Ids(Tail(ts))

----------------------------------------------------------------------------
(* fetch_list_tweets: one coroutine per configured list *)

PageCap == 40

\* pc: "none" (no task), "delay", "get_list", "v1_show", "owner", "page",
\*     "returned", "raised", "cancelled"
\* received, fatal_seen, page_fail, req, pages and answered record what the remote
\* side saw and said: the tweets sent, the last request, the number of page
\* requests and the next_cursor and batch size of the last answer (<<>> before any)
FetchNone ==
    [pc |-> "none", tweets |-> <<>>, cursor |-> "", owner_obj |-> FALSE,
     received |-> <<>>, fatal_seen |-> FALSE, page_fail |-> "",
     req |-> [count |-> 0, cursor |-> ""], exc |-> "",
     pages |-> 0, answered |-> <<>>, max_tweets |-> MaxTweets, hashseed |-> <<UrlA, UrlB>>]

\* a fetcher of a process with the given hash seed, before any task
NewFetch(seed) == [FetchNone EXCEPT !.hashseed = seed]

\* `while len(tweets) < max_tweets` (line 250), `return tweets` (line 359)
LoopHead(f) == IF Len(f.tweets) < f.max_tweets THEN [f EXCEPT !.pc = "page"] ELSE [f EXCEPT !.pc = "returned"]

\* lines 229-247 after the list info calls: is the owner looked up remotely?
AfterListInfo(f, list_owner_pref, profile_image) ==
    IF list_owner_pref /\ ~profile_image THEN [f EXCEPT !.pc = "owner"] ELSE LoopHead(f)

\* lines 244-247: without a remote owner lookup the list's owner object, when
\* there is one, supplies the profile
ProfileAfterInfo(list_owner_pref, profile_image, owner_obj) ==
    IF list_owner_pref /\ ~profile_image THEN profile_image ELSE profile_image \/ owner_obj

\* lines 211-217: get_list; every exception goes to the v1.1 fallback
get_list_step(f, resp, list_owner_pref, profile_image) ==
    IF resp \in FetchErrs
    THEN [f EXCEPT !.pc = "v1_show",
                   !.fatal_seen = @ \/ IsRateLimitErr(resp) \/ IsAuthErr(resp)]
    ELSE AfterListInfo([f EXCEPT !.owner_obj = (resp = "ok+owner")], list_owner_pref, profile_image)

\* lines 219-227: the v1.1 fallback; every exception is logged and dropped
v1_show_step(f, resp, list_owner_pref, profile_image) ==
    AfterListInfo([f EXCEPT !.fatal_seen = @ \/ (resp \in FetchErrs /\ (IsRateLimitErr(resp) \/ IsAuthErr(resp)))],
                  list_owner_pref, profile_image)

\* lines 236-242: get_user_by_screen_name under a bare except
owner_step(f, resp) ==
    LoopHead([f EXCEPT !.fatal_seen = @ \/ (resp \in FetchErrs /\ (IsRateLimitErr(resp) \/ IsAuthErr(resp)))])

\* variant: a rate-limit error is not re-raised
fetch_except_auth_only(f, err) ==
    IF IsAuthErr(err)
    THEN [f EXCEPT !.pc = "raised", !.exc = "X session unauthorized (401) fetching list. Please re-import your cookies."]
    ELSE [f EXCEPT !.pc = "returned"]

\* variant: every exception is re-raised
fetch_except_raise_all(f, err) ==
    [f EXCEPT !.pc = "raised", !.exc = err]

\* lines 360-369: the outer except
fetch_except(f, err) ==
    IF IsRateLimitErr(err)
    THEN [f EXCEPT !.pc = "raised", !.exc = "X Rate Limit reached fetching list. Please wait 15 minutes and try again."]
    ELSE IF IsAuthErr(err)
         THEN [f EXCEPT !.pc = "raised", !.exc = "X session unauthorized (401) fetching list. Please re-import your cookies."]
         ELSE [f EXCEPT !.pc = "returned"]

\* variant: the page size is what is still missing, without the cap
PageRequestUncapped(f) == [count |-> f.max_tweets - Len(f.tweets), cursor |-> f.cursor]

\* the request line 251 issues
PageRequest(f) == [count |-> Min(PageCap, f.max_tweets - Len(f.tweets)), cursor |-> f.cursor]

\* lines 251-357: one page answered with a batch; ts is the batch after extraction
page_ok_step(f, resp, ts) ==
    LET f1 == [f EXCEPT !.req = PageRequest(f), !.pages = @ + 1, !.answered = <<[next_cursor |-> resp.next_cursor, size |-> Len(resp.batch)]>>]
    IN  IF resp.batch = <<>> THEN [f1 EXCEPT !.pc = "returned"]
        ELSE IF BatchRaises(resp.batch)
             THEN fetch_except([f1 EXCEPT !.tweets = @ \o ts,
                                          !.received = @ \o Ids(resp.batch)], ExtractErr)
             ELSE LET f2 == [f1 EXCEPT !.tweets = @ \o ts,
                                       !.received = @ \o Ids(resp.batch),
                                       !.cursor = resp.next_cursor]
                  IN  IF ~Truthy(resp.next_cursor) THEN [f2 EXCEPT !.pc = "returned"]
                      ELSE LoopHead(f2)

\* line 251 raising
page_err_step(f, err) ==
    fetch_except([f EXCEPT !.req = PageRequest(f), !.pages = @ + 1, !.page_fail = err,
                           !.fatal_seen = @ \/ IsRateLimitErr(err) \/ IsAuthErr(err)], err)

----------------------------------------------------------------------------
(* Run orchestration (DashHandler.do_POST /api/run, _run_async_task) *)

\* config['twitter']['list_urls'] as the runs may find it
ListUrls == <<"https://x.com/i/lists/1", "https://x.com/i/lists/2">>
UrlChoices == {SubSeq(ListUrls, 1, n) : n \in 0..Len(ListUrls)}
TaskIds == 1..Len(ListUrls)

\* load_config(): the provider entries of the default configuration, with and
\* without a key filled in by the user
RunConfigs ==
    { [provider |-> "groq",   cfg |-> [api_key |-> "",       endpoint |-> "http://host:9000/v1"]],
      [provider |-> "groq",   cfg |-> [api_key |-> "sk-key", endpoint |-> "http://host:9000/v1"]],
      [provider |-> "ollama", cfg |-> [api_key |-> "absent", endpoint |-> "http://host:9000/v1"]],
      [provider |-> "claude", cfg |-> [api_key |-> "",       endpoint |-> "absent"]],
      [provider |-> "claude", cfg |-> [api_key |-> "sk-key", endpoint |-> "absent"]],
      [provider |-> "openai", cfg |-> [api_key |-> "sk-key", endpoint |-> "absent"]] }

LoginOutcomes == {"ok", "not found", "expired", "rate limit", "failed"}

RunIdle ==
    [pc |-> "idle", running |-> FALSE, error |-> <<>>, last_report |-> "",
     urls |-> <<>>, list_owner_pref |-> FALSE, profile_image |-> FALSE,
     handlers |-> [h \in 1..MaxRequests |-> "idle"], tasks |-> 0]

\* `needle in err_msg` for the pieces an error message of the run is made of
PieceContains(piece, needle) ==
    CASE needle = "429" -> piece \in {Msg429, MsgRetry20, MsgRetry70}
      [] needle = "rate limit" ->
            piece \in {": Rate limited after 3 attempts.", ": Rate limited (free tier has low RPM).",
                       "X Rate Limit reached fetching list. Please wait 15 minutes and try again.",
                       "X Rate Limit reached while verifying session. Please wait 15 minutes and try again."}
      [] needle = "Please" ->
            piece \in {"X Rate Limit reached fetching list. Please wait 15 minutes and try again.",
                       "X session unauthorized (401) fetching list. Please re-import your cookies.",
                       "X Rate Limit reached while verifying session. Please wait 15 minutes and try again.",
                       "No X session found. Please import your cookies first.",
                       "X session expired or unauthorized. Please re-import your cookies.",
                       "X login failed. Please re-import your cookies.",
                       "No X List URLs configured. Please add at least one X List URL.",
                       "Please check your settings and connection.",
                       "Please check that Ollama is running and the model is installed.",
                       "Please check that llama.cpp server is running at the endpoint.",
                       "Please check that KoboldAI is running at the endpoint.",
                       "Please check that the server is running at the endpoint."}
      [] OTHER -> FALSE

ErrHas(err, needle) == \E i \in 1..Len(err) : PieceContains(err[i], needle)

\* lines 394-409: the except branch of the run
run_except(r, err) ==
    LET err_msg == IF (ErrHas(err, "429") \/ ErrHas(err, "rate limit")) /\ ~ErrHas(err, "Please")
                   THEN <<"X Rate Limit Reached. Please wait 15 minutes before trying again.">>
                   ELSE err
    IN  [r EXCEPT !.pc = "failed", !.error = err_msg, !.running = FALSE]

\* lines 315-323: the exception raised for a failed login
LoginError(outcome) ==
    CASE outcome = "not found"  -> <<"No X session found. Please import your cookies first.">>
      [] outcome = "expired"    -> <<"X session expired or unauthorized. Please re-import your cookies.">>
      [] outcome = "rate limit" -> <<"X Rate Limit reached while verifying session. Please wait 15 minutes and try again.">>
      [] OTHER                  -> <<"X login failed. Please re-import your cookies.">>

\* lines 339-343: one task per url, the first without a start delay
CreateTasks(urls, seed) ==
    [i \in TaskIds |->
        IF i <= Len(urls)
        THEN [NewFetch(seed) EXCEPT !.pc = IF i = 1 THEN "get_list" ELSE "delay"]
        ELSE NewFetch(seed)]

\* variant: the run goes on as soon as one task has returned
GatherAnyDone(f, urls) == \E i \in 1..Len(urls) : f[i].pc = "returned"

\* variant: gather hands back the results once every task has ended, failed ones included
GatherAllEnded(f, urls) == \A i \in 1..Len(urls) : f[i].pc \in {"returned", "raised"}

\* line 345: asyncio.gather returns once every task has returned
GatherDone(f, urls) == \A i \in 1..Len(urls) : f[i].pc = "returned"

\* line 345: asyncio.gather raises as soon as one task has raised
GatherFailed(f, urls) == \E i \in 1..Len(urls) : f[i].pc = "raised"

\* a coroutine that has ended keeps no locals: only how it ended stays visible
Ended(f, pc) == [NewFetch(f.hashseed) EXCEPT !.pc = IF f.pc = "none" THEN "none" ELSE pc]

\* variant: the tasks still pending are left running when the run fails
CancelNone(f) == [i \in TaskIds |-> IF f[i].pc \in {"returned", "raised"} THEN Ended(f[i], f[i].pc) ELSE f[i]]

\* web_ui line 412: asyncio.run closes the event loop when _run_async_task has
\* ended, cancelling every task still pending (CancelledError is no Exception:
\* the except of fetch_list_tweets does not catch it)
CancelPending(f) ==
    [i \in TaskIds |->
        IF f[i].pc \in {"delay", "get_list", "v1_show", "owner", "page"}
        THEN Ended(f[i], "cancelled") ELSE Ended(f[i], f[i].pc)]

\* line 346: for r in results: all_tweets.extend(r)
RECURSIVE ExtendAll(_, _, _)
ExtendAll(f, i, n) == IF i > n THEN <<>> ELSE f[i].tweets \o ExtendAll(f, i + 1, n)

----------------------------------------------------------------------------
(* Identifier cache and list memberships (XListFetcher.__init__, get_user_id, *)
(* get_user_memberships)                                                     *)

\* the forms the handles looked up are typed in
Usernames == {"elonmusk", "@ElonMusk ", "nasa"}

\* line 56: username.lower().replace('@', '').strip()
Normalise(username) ==
    CASE username = "elonmusk"   -> "elonmusk"
      [] username = "@ElonMusk " -> "elonmusk"
      [] username = "nasa"       -> "nasa"

\* cache/user_ids.json: absent, not JSON ("corrupt"), the JSON list [] ("list")
\* or a JSON object holding the ids of some handles ("dict"); the same record
\* stands for the value json.load gives
CacheDoc(kind, handles) == [kind |-> kind, handles |-> handles]
CacheDocs ==
    {CacheDoc("absent", {}), CacheDoc("corrupt", {}), CacheDoc("list", {})}
        \cup {CacheDoc("dict", h) : h \in {{}, {"elonmusk"}}}

\* variant: json.load outside any try
_load_user_cache_no_except(doc) ==
    IF doc.kind = "absent" THEN [raised |-> FALSE, value |-> CacheDoc("dict", {})]
    ELSE IF doc.kind = "corrupt" THEN [raised |-> TRUE, value |-> CacheDoc("dict", {})]
    ELSE [raised |-> FALSE, value |-> doc]

\* _load_user_cache, lines 35-43: {} when the file does not exist, {} when
\* open or json.load raises, else the parsed document
_load_user_cache(doc) ==
    IF doc.kind = "absent" THEN [raised |-> FALSE, value |-> CacheDoc("dict", {})]
    ELSE IF doc.kind = "corrupt" THEN [raised |-> FALSE, value |-> CacheDoc("dict", {})]
    ELSE [raised |-> FALSE, value |-> doc]

\* the fetcher before construction; failed records that the call met an
\* exception. peer is the user_cache of a second fetcher over the same cache
\* file (<<>> until it is constructed); persisted records every handle a
\* document at user_cache_path has held.
ProfNone ==
    [pc |-> "none", disk |-> CacheDoc("absent", {}), user_cache |-> CacheDoc("dict", {}),
     cursor |-> "-1", memberships |-> <<>>, result |-> <<>>, failed |-> FALSE, pages |-> 0,
     peer |-> <<>>, persisted |-> {}]

\* the fetcher before construction, next to the given cache document
ProfOver(doc) == [ProfNone EXCEPT !.disk = doc, !.persisted = doc.handles]

\* variant: _save_user_cache writes the new entry alone
get_user_id_save_entry_only(p, handle, lookup, saved) ==
    IF p.user_cache.kind = "dict" /\ handle \in p.user_cache.handles
    THEN [raised |-> FALSE, p |-> p]
    ELSE IF lookup # "ok" \/ p.user_cache.kind # "dict"
         THEN [raised |-> TRUE, p |-> p]
         ELSE LET cache == CacheDoc("dict", p.user_cache.handles \cup {handle})
              IN  [raised |-> FALSE,
                   p |-> [p EXCEPT !.user_cache = cache,
                                   !.disk = IF saved THEN CacheDoc("dict", {handle}) ELSE @,
                                   !.persisted = IF saved THEN @ \cup {handle} ELSE @]]

\* get_user_id, lines 54-68, for a normalised handle: a cache hit makes no call;
\* else the id is looked up (get_user_by_screen_name gives the user, a
\* rate-limit error or another error), stored and saved (_save_user_cache swallows a
\* failed write: saved = FALSE); item assignment on a list raises TypeError
get_user_id(p, handle, lookup, saved) ==
    IF p.user_cache.kind = "dict" /\ handle \in p.user_cache.handles
    THEN [raised |-> FALSE, p |-> p]
    ELSE IF lookup # "ok" \/ p.user_cache.kind # "dict"
         THEN [raised |-> TRUE, p |-> p]
         ELSE LET cache == CacheDoc("dict", p.user_cache.handles \cup {handle})
              IN  [raised |-> FALSE,
                   p |-> [p EXCEPT !.user_cache = cache,
                                   !.disk = IF saved THEN cache ELSE @,
                                   !.persisted = IF saved THEN @ \cup cache.handles ELSE @]]

\* an entry of response['lists']: name ("" when missing), user ("dict", "absent"
\* or "null"), the user's screen_name and id_str ("" when missing)
ListEntry(name, user, screen_name, id_str) ==
    [name |-> name, user |-> user, screen_name |-> screen_name, id_str |-> id_str]

\* batches of response['lists']: a full entry, one without name, one without
\* user, one whose user is null
ListBatches ==
    {<<>>,
     <<ListEntry("AI", "dict", "alice", "101")>>,
     <<ListEntry("", "dict", "bob", "102"), ListEntry("Space", "absent", "", "")>>,
     <<ListEntry("AI", "dict", "alice", "101"), ListEntry("Bad", "null", "", "104")>>}

\* what one request may give: an exception, a falsy response or one without
\* 'lists', or lists with next_cursor_str ("absent" when the key is missing)
MembershipResponses ==
    {[kind |-> "error", lists |-> <<>>, next_cursor |-> "absent"],
     [kind |-> "none", lists |-> <<>>, next_cursor |-> "absent"]}
        \cup [kind : {"lists"}, lists : ListBatches, next_cursor : {"absent", "0", "", "1777"}]

\* line 157: the safety cap on the number of memberships
MembershipCap == 500

\* variant: every entry is appended, named or not
RECURSIVE AppendListsUnfiltered(_, _)
AppendListsUnfiltered(memberships, lists) ==
    IF lists = <<>> THEN [raised |-> FALSE, memberships |-> memberships]
    ELSE LET l == Head(lists)
         IN  IF l.user = "null"
             THEN [raised |-> TRUE, memberships |-> memberships]
             ELSE AppendListsUnfiltered(
                      Append(memberships,
                             [name |-> l.name,
                              owner |-> IF l.user = "absent" THEN "Unknown" ELSE l.screen_name,
                              id |-> l.id_str]),
                      Tail(lists))

\* lines 145-154: the for loop over response['lists']; l.get('user', {}) is
\* None for a null user, and .get on it raises AttributeError
RECURSIVE AppendLists(_, _)
AppendLists(memberships, lists) ==
    IF lists = <<>> THEN [raised |-> FALSE, memberships |-> memberships]
    ELSE LET l == Head(lists)
         IN  IF l.name = "" THEN AppendLists(memberships, Tail(lists))
             ELSE IF l.user = "null"
                  THEN [raised |-> TRUE, memberships |-> memberships]
                  ELSE AppendLists(
                           Append(memberships,
                                  [name |-> l.name,
                                   owner |-> IF l.user = "absent" THEN "Unknown" ELSE l.screen_name,
                                   id |-> l.id_str]),
                           Tail(lists))

\* lines 162-164: except Exception: return []
memberships_except(p) == [p EXCEPT !.pc = "returned", !.result = <<>>, !.failed = TRUE]

\* lines 125-129: load_cookies, get_user_id, the locals of the loop
memberships_begin(p, username, cookies_ok, lookup, saved) ==
    LET p0 == [p EXCEPT !.result = <<>>, !.failed = FALSE, !.pages = 0,
                        !.memberships = <<>>, !.cursor = "-1"]
        g  == get_user_id(p0, Normalise(username), lookup, saved)
    IN  IF ~cookies_ok THEN memberships_except(p0)
        ELSE IF g.raised THEN memberships_except(g.p)
        ELSE [g.p EXCEPT !.pc = "page"]

\* lines 133-161: one pass of the while loop, answered by resp
memberships_page(p, resp) ==
    LET p1 == [p EXCEPT !.pages = @ + 1]
    IN  IF resp.kind = "error" THEN memberships_except(p1)
        ELSE IF resp.kind = "none" THEN [p1 EXCEPT !.pc = "returned", !.result = p.memberships]
        ELSE LET a == AppendLists(p.memberships, resp.lists)
                 cursor == IF resp.next_cursor = "absent" THEN "0" ELSE resp.next_cursor
             IN  IF a.raised THEN memberships_except(p1)
                 ELSE IF cursor = "0" \/ cursor = "" \/ Len(a.memberships) > MembershipCap
                      THEN [p1 EXCEPT !.pc = "returned", !.memberships = a.memberships,
                                      !.cursor = cursor, !.result = a.memberships]
                      ELSE [p1 EXCEPT !.memberships = a.memberships, !.cursor = cursor]

----------------------------------------------------------------------------
(* Actions *)

\* POST /api/run (lines 257-263) and the start of _run_async_task (lines 305-310)
StartRun ==
    /\ ~run.running
    /\ \E urls \in UrlChoices, pref \in BOOLEAN :
         run' = [RunIdle EXCEPT !.pc = "login", !.running = TRUE, !.urls = urls,
                                !.list_owner_pref = pref]
    /\ all_tweets' = <<>>
    /\ agg' = <<>>
    /\ provider' = "unset"
    /\ config' = [api_key |-> "absent", endpoint |-> "absent"]
    /\ synth' = SynthIdle
    /\ fetch' = [i \in TaskIds |-> NewFetch(fetch[i].hashseed)]
    /\ report' = <<>>
    /\ UNCHANGED <<ver, prof>>

\* lines 313-343: login, the url check and the creation of the fetch tasks
Login ==
    /\ run.pc = "login"
    /\ \E outcome \in LoginOutcomes :
         IF outcome # "ok"
         THEN run' = run_except(run, LoginError(outcome)) /\ UNCHANGED fetch
         ELSE IF run.urls = <<>>
              THEN /\ run' = run_except(run, <<"No X List URLs configured. Please add at least one X List URL.">>)
                   /\ UNCHANGED fetch
              ELSE run' = [run EXCEPT !.pc = "gather"] /\ fetch' = CreateTasks(run.urls, fetch[1].hashseed)
    /\ UNCHANGED <<all_tweets, agg, provider, config, synth, ver, report, prof>>

\* lines 195-196: await asyncio.sleep(delay)
FetchDelay(i) ==
    /\ run.pc = "gather"
    /\ fetch[i].pc = "delay"
    /\ fetch' = [fetch EXCEPT ![i].pc = "get_list"]
    /\ UNCHANGED <<all_tweets, agg, provider, config, synth, ver, run, report, prof>>

FetchGetList(i) ==
    /\ run.pc = "gather"
    /\ fetch[i].pc = "get_list"
    /\ \E resp \in MetaResponses :
         /\ fetch' = [fetch EXCEPT ![i] = get_list_step(@, resp, run.list_owner_pref, run.profile_image)]
         /\ run' = IF resp \in FetchErrs THEN run
                   ELSE [run EXCEPT !.profile_image =
                            ProfileAfterInfo(run.list_owner_pref, @, resp = "ok+owner")]
    /\ UNCHANGED <<all_tweets, agg, provider, config, synth, ver, report, prof>>

FetchV1Show(i) ==
    /\ run.pc = "gather"
    /\ fetch[i].pc = "v1_show"
    /\ \E resp \in {"ok"} \cup FetchErrs :
         fetch' = [fetch EXCEPT ![i] = v1_show_step(@, resp, run.list_owner_pref, run.profile_image)]
    /\ UNCHANGED <<all_tweets, agg, provider, config, synth, ver, run, report, prof>>

\* lines 236-247: the owner profile, remotely or from the list's owner object
FetchOwner(i) ==
    /\ run.pc = "gather"
    /\ fetch[i].pc = "owner"
    /\ \E resp \in {"ok"} \cup FetchErrs :
         /\ fetch' = [fetch EXCEPT ![i] = owner_step(@, resp)]
         /\ run' = [run EXCEPT !.profile_image = @ \/ resp = "ok" \/ fetch[i].owner_obj]
    /\ UNCHANGED <<all_tweets, agg, provider, config, synth, ver, report, prof>>

\* lines 250-369: one pass of the page loop, the endpoint answering from `responses`
FetchPageFrom(i, responses) ==
    /\ run.pc = "gather"
    /\ fetch[i].pc = "page"
    /\ fetch[i].pages < MaxPages
    /\ \/ \E resp \in responses :
            fetch' = [fetch EXCEPT ![i] = page_ok_step(@, resp, ExtractBatch(resp.batch, @.hashseed))]
       \/ \E err \in FetchErrs :
            fetch' = [fetch EXCEPT ![i] = page_err_step(@, err)]
    /\ UNCHANGED <<all_tweets, agg, provider, config, synth, ver, run, report, prof>>

FetchPage(i) == FetchPageFrom(i, PageResponses)

\* the same pass with any single tweet of the catalog as the page
ExtractPage == FetchPageFrom(1, CatalogResponses)

\* the same pass in either of two interpreter processes given the same pages
PurePage(i) == FetchPageFrom(i, PureResponses)

\* lines 345-352: every task returned
GatherReturn ==
    /\ run.pc = "gather"
    /\ GatherDone(fetch, run.urls)
    /\ LET all == ExtendAll(fetch, 1, Len(run.urls))
       IN  /\ all_tweets' = all
           /\ run' = IF all = <<>>
                     THEN run_except(run, <<"No tweets were fetched from any of your lists.">>)
                     ELSE [run EXCEPT !.pc = "aggregate"]
    /\ fetch' = [i \in TaskIds |-> IF fetch[i].pc = "returned" THEN Ended(fetch[i], "returned") ELSE fetch[i]]
    /\ UNCHANGED <<agg, provider, config, synth, ver, report, prof>>

\* line 345 raising: the exception of a failed task reaches the run, whose event
\* loop then ends and cancels the tasks still pending
GatherRaise ==
    /\ run.pc = "gather"
    /\ GatherFailed(fetch, run.urls)
    /\ \E i \in 1..Len(run.urls) :
         /\ fetch[i].pc = "raised"
         /\ run' = run_except(run, <<fetch[i].exc>>)
    /\ fetch' = CancelPending(fetch)
    /\ UNCHANGED <<all_tweets, agg, provider, config, synth, ver, report, prof>>

\* line 355
Aggregate ==
    /\ run.pc = "aggregate"
    /\ agg' = <<aggregate_by_links(all_tweets)>>
    /\ run' = [run EXCEPT !.pc = "provider"]
    /\ UNCHANGED <<all_tweets, provider, config, synth, ver, fetch, report, prof>>

\* line 362: LLMProvider(config) on the configuration the run loaded
ConstructProvider ==
    /\ run.pc = "provider"
    /\ \E rc \in RunConfigs : provider' = rc.provider /\ config' = rc.cfg
    /\ run' = [run EXCEPT !.pc = "summarize"]
    /\ UNCHANGED <<all_tweets, agg, synth, ver, fetch, report, prof>>

\* line 363: provider.summarize(agg) is entered
SummarizeBegin ==
    /\ run.pc = "summarize"
    /\ synth.pc = "idle"
    /\ synth' = summarize_begin(provider, config)
    /\ UNCHANGED <<all_tweets, agg, provider, config, ver, fetch, run, report, prof>>

\* one remote call of the backend
ProviderCall ==
    /\ synth.pc = "call"
    /\ \E resp \in Responses : synth' = provider_call(provider, synth, resp)
    /\ UNCHANGED <<all_tweets, agg, provider, config, ver, fetch, run, report, prof>>

\* line 268: time.sleep(wait) is over
RetrySleep ==
    /\ synth.pc = "sleep"
    /\ synth' = after_sleep(synth)
    /\ UNCHANGED <<all_tweets, agg, provider, config, ver, fetch, run, report, prof>>

\* lines 363-366: summarize() is left, by return or by exception
SummarizeEnd ==
    /\ run.pc = "summarize"
    /\ synth.pc = "done"
    /\ LET out == synth.outcome[1]
       IN  run' = IF out.kind = "raise" THEN run_except(run, out.value)
                  ELSE IF StartsWithError(out.value)
                       THEN run_except(run, <<"AI Synthesis failed: ">> \o out.value)
                       ELSE [run EXCEPT !.pc = "report"]
    /\ UNCHANGED <<all_tweets, agg, provider, config, synth, ver, fetch, report, prof>>

\* lines 370-392: the report is written and published
Report ==
    /\ run.pc = "report"
    /\ report' = <<generate_html_report(agg[1])>>
    /\ run' = [run EXCEPT !.pc = "done", !.last_report = "summary.html", !.running = FALSE]
    /\ UNCHANGED <<all_tweets, agg, provider, config, synth, ver, fetch, prof>>

\* /api/status: provider.verify() is entered (web_ui lines 102-103)
VerifyBegin ==
    /\ ver.pc = "idle"
    /\ ver' = verify_begin(provider, config)
    /\ UNCHANGED <<all_tweets, agg, provider, config, synth, fetch, run, report, prof>>

\* one remote call of verify()
VerifyCall ==
    /\ ver.pc \in {"tags", "generate", "models", "chat"}
    /\ \E resp \in VerifyResponses : ver' = verify_call(ver, resp)
    /\ UNCHANGED <<all_tweets, agg, provider, config, synth, fetch, run, report, prof>>

\* XListFetcher(), lines 20-33
Construct ==
    /\ prof.pc = "none"
    /\ LET loaded == _load_user_cache(prof.disk)
       IN  prof' = [prof EXCEPT !.pc = IF loaded.raised THEN "init_raised" ELSE "ready",
                                !.user_cache = loaded.value]
    /\ UNCHANGED <<all_tweets, agg, provider, config, synth, ver, fetch, run, report>>

\* get_user_memberships(username) up to its first request
GetUserMemberships(username) ==
    /\ prof.pc \in {"ready", "returned"}
    /\ \E cookies_ok \in BOOLEAN, lookup \in {"ok", "rate_limit", "not_found"}, saved \in BOOLEAN :
         prof' = memberships_begin(prof, username, cookies_ok, lookup, saved)
    /\ UNCHANGED <<all_tweets, agg, provider, config, synth, ver, fetch, run, report>>

\* one request of the memberships loop and the handling of its answer
MembershipsPage ==
    /\ prof.pc = "page"
    /\ prof.pages < MaxPages
    /\ \E resp \in MembershipResponses : prof' = memberships_page(prof, resp)
    /\ UNCHANGED <<all_tweets, agg, provider, config, synth, ver, fetch, run, report>>

\* XListFetcher() of a second fetcher (a concurrent /api/profile request or
\* the run task), which loads the same cache file
ConstructPeer ==
    /\ prof.peer = <<>>
    /\ prof' = [prof EXCEPT !.peer = <<_load_user_cache(prof.disk).value>>]
    /\ UNCHANGED <<all_tweets, agg, provider, config, synth, ver, fetch, run, report>>

\* get_user_id(username) of the second fetcher, on its own user_cache
PeerGetUserId(username) ==
    /\ prof.peer # <<>>
    /\ \E lookup \in {"ok", "rate_limit", "not_found"}, saved \in BOOLEAN :
         LET g == get_user_id([prof EXCEPT !.user_cache = prof.peer[1]],
                              Normalise(username), lookup, saved)
         IN  prof' = [g.p EXCEPT !.peer = <<g.p.user_cache>>, !.user_cache = prof.user_cache]
    /\ UNCHANGED <<all_tweets, agg, provider, config, synth, ver, fetch, run, report>>

----------------------------------------------------------------------------
(* Specifications *)

\* the server after start-up: no run yet
Init ==
    /\ all_tweets = <<>>
    /\ agg = <<>>
    /\ provider = "unset"
    /\ config = [api_key |-> "absent", endpoint |-> "absent"]
    /\ synth = SynthIdle
    /\ ver = VerIdle
    /\ \E seed \in HashSeeds : fetch = [i \in TaskIds |-> NewFetch(seed)]
    /\ report = <<>>
    /\ prof = ProfNone
    /\ run = RunIdle

Next ==
    \/ StartRun
    \/ Login
    \/ \E i \in TaskIds : FetchDelay(i)
    \/ \E i \in TaskIds : FetchGetList(i)
    \/ \E i \in TaskIds : FetchV1Show(i)
    \/ \E i \in TaskIds : FetchOwner(i)
    \/ \E i \in TaskIds : FetchPage(i)
    \/ GatherReturn
    \/ GatherRaise
    \/ Aggregate
    \/ ConstructProvider
    \/ SummarizeBegin
    \/ ProviderCall
    \/ RetrySleep
    \/ SummarizeEnd
    \/ Report

Spec == Init /\ [][Next]_vars

\* aggregate_by_links applied to every list of up to MaxPosts extracted tweets
RECURSIVE SeqsUpTo(_, _)
SeqsUpTo(S, n) ==
    IF n = 0 THEN {<<>>}
    ELSE LET shorter == SeqsUpTo(S, n - 1)
         IN  shorter \cup {Append(s, x) : s \in shorter, x \in S}

\* one more link-less tweet than the report shows
LinklessRun == [i \in 1..(IndividualCap + 1) |-> CHOOSE t \in Posts : t.id = 3]

InitAgg ==
    /\ all_tweets \in SeqsUpTo(Posts, MaxPosts) \cup {LinklessRun}
    /\ agg = <<>>
    /\ provider = "unset"
    /\ config = [api_key |-> "absent", endpoint |-> "absent"]
    /\ synth = SynthIdle
    /\ ver = VerIdle
    /\ fetch = [i \in TaskIds |-> FetchNone]
    /\ report = <<>>
    /\ prof = ProfNone
    /\ run = [RunIdle EXCEPT !.pc = "aggregate", !.running = TRUE]

NextAgg == Aggregate

SpecAgg == InitAgg /\ [][NextAgg]_vars

\* summarize() for every provider identifier and configuration
InitSynth ==
    /\ all_tweets = <<>>
    /\ agg = <<aggregate_by_links(<<>>)>>
    /\ provider \in Providers
    /\ config \in Configs
    /\ synth = SynthIdle
    /\ ver = VerIdle
    /\ fetch = [i \in TaskIds |-> FetchNone]
    /\ report = <<>>
    /\ prof = ProfNone
    /\ run = [RunIdle EXCEPT !.pc = "summarize", !.running = TRUE]

NextSynth == SummarizeBegin \/ ProviderCall \/ RetrySleep \/ SummarizeEnd \/ Report

SpecSynth == InitSynth /\ [][NextSynth]_vars

\* one fetch_list_tweets in its page loop, fed every tweet of the catalog
InitExtract ==
    /\ all_tweets = <<>>
    /\ agg = <<>>
    /\ provider = "unset"
    /\ config = [api_key |-> "absent", endpoint |-> "absent"]
    /\ synth = SynthIdle
    /\ ver = VerIdle
    /\ \E seed \in HashSeeds :
         fetch = [i \in TaskIds |-> IF i = 1 THEN [NewFetch(seed) EXCEPT !.pc = "page"] ELSE FetchNone]
    /\ report = <<>>
    /\ prof = ProfNone
    /\ run = [RunIdle EXCEPT !.pc = "gather", !.running = TRUE, !.urls = SubSeq(ListUrls, 1, 1)]

NextExtract == ExtractPage

SpecExtract == InitExtract /\ [][NextExtract]_vars

\* One fetch at its page loop, for a small max_tweets and for one above the
\* page cap, against an endpoint that answers any page with any batch and cursor.
InitPaging ==
    /\ all_tweets = <<>>
    /\ agg = <<>>
    /\ provider = "unset"
    /\ config = [api_key |-> "absent", endpoint |-> "absent"]
    /\ synth = SynthIdle
    /\ ver = VerIdle
    /\ \E seed \in HashSeeds : \E max_tweets \in {MaxTweets, PageCap + 1} :
         fetch = [i \in TaskIds |->
                    IF i = 1 THEN [NewFetch(seed) EXCEPT !.pc = "page", !.max_tweets = max_tweets]
                    ELSE FetchNone]
    /\ report = <<>>
    /\ prof = ProfNone
    /\ run = [RunIdle EXCEPT !.pc = "gather", !.running = TRUE, !.urls = SubSeq(ListUrls, 1, 1)]

NextPaging == FetchPage(1)

SpecPaging == InitPaging /\ [][NextPaging]_vars

\* The membership lookup alone: a fetcher constructed over any cache document,
\* then get_user_memberships calls against any answers.
InitProfiler ==
    /\ all_tweets = <<>>
    /\ agg = <<>>
    /\ provider = "unset"
    /\ config = [api_key |-> "absent", endpoint |-> "absent"]
    /\ synth = SynthIdle
    /\ ver = VerIdle
    /\ fetch = [i \in TaskIds |-> FetchNone]
    /\ report = <<>>
    /\ \E doc \in CacheDocs : prof = ProfOver(doc)
    /\ run = RunIdle

NextProfiler == Construct \/ (\E username \in Usernames : GetUserMemberships(username)) \/ MembershipsPage

SpecProfiler == InitProfiler /\ [][NextProfiler]_vars

\* Two fetchers over one cache file, their operations interleaved in any order.
InitCache ==
    /\ all_tweets = <<>>
    /\ agg = <<>>
    /\ provider = "unset"
    /\ config = [api_key |-> "absent", endpoint |-> "absent"]
    /\ synth = SynthIdle
    /\ ver = VerIdle
    /\ fetch = [i \in TaskIds |-> FetchNone]
    /\ report = <<>>
    /\ \E doc \in CacheDocs : prof = ProfOver(doc)
    /\ run = RunIdle

NextCache ==
    \/ Construct
    \/ \E username \in Usernames : GetUserMemberships(username)
    \/ MembershipsPage
    \/ ConstructPeer
    \/ \E username \in Usernames : PeerGetUserId(username)

SpecCache == InitCache /\ [][NextCache]_vars

\* Two runs of the program, each in its own interpreter process with its own
\* string-hash seed, each fetching one list that serves the same payloads.
InitPure ==
    /\ all_tweets = <<>>
    /\ agg = <<>>
    /\ provider = "unset"
    /\ config = [api_key |-> "absent", endpoint |-> "absent"]
    /\ synth = SynthIdle
    /\ ver = VerIdle
    /\ \E seeds \in [TaskIds -> HashSeeds] :
         fetch = [i \in TaskIds |-> [NewFetch(seeds[i]) EXCEPT !.pc = "page"]]
    /\ report = <<>>
    /\ prof = ProfNone
    /\ run = [RunIdle EXCEPT !.pc = "gather", !.running = TRUE, !.urls = SubSeq(ListUrls, 1, 1)]

NextPure == \E i \in TaskIds : PurePage(i)

SpecPure == InitPure /\ [][NextPure]_vars

\* generate_html_report applied to the aggregation of every list of up to
\* MaxPosts extracted tweets
InitReport ==
    /\ all_tweets \in SeqsUpTo(Posts, MaxPosts)
    /\ agg = <<aggregate_by_links(all_tweets)>>
    /\ provider = "groq"
    /\ config = [api_key |-> "sk-key", endpoint |-> "absent"]
    /\ synth = [SynthIdle EXCEPT !.pc = "done", !.calls = 1, !.history = <<RespOK>>,
                                 !.outcome = Returned(GeneratedText)]
    /\ ver = VerIdle
    /\ fetch = [i \in TaskIds |-> FetchNone]
    /\ report = <<>>
    /\ prof = ProfNone
    /\ run = [RunIdle EXCEPT !.pc = "report", !.running = TRUE]

NextReport == Report

SpecReport == InitReport /\ [][NextReport]_vars

\* verify() for every provider identifier and configuration
InitVerify ==
    /\ all_tweets = <<>>
    /\ agg = <<>>
    /\ provider \in Providers
    /\ config \in Configs
    /\ synth = SynthIdle
    /\ ver = VerIdle
    /\ fetch = [i \in TaskIds |-> FetchNone]
    /\ report = <<>>
    /\ prof = ProfNone
    /\ run = RunIdle

NextVerify == VerifyBegin \/ VerifyCall

SpecVerify == InitVerify /\ [][NextVerify]_vars

----------------------------------------------------------------------------
(* Properties *)

\* the score of a group as the data model states it, doubled:
\* 2 * sum of (likes + 1.5 reshares + 2.0 replies + quote-reshares + bookmarks)
StatedScore2(ts) ==
    LET acc[n \in 0..Len(ts)] ==
            IF n = 0 THEN 0
            ELSE acc[n - 1] + 2 * ts[n].likes + 3 * ts[n].retweets + 4 * ts[n].replies
                            + 2 * ts[n].quotes + 2 * ts[n].bookmarks
    IN  acc[Len(ts)]

Groups == agg[1].by_link
SideBucket == agg[1].no_links
GroupsHolding(t) == {k \in 1..Len(Groups) : t \in Range(Groups[k].tweets)}

\* C1: the groups aggregate returns are in non-increasing order of the stated
\* score, and [P1, P2, P3] of the end-to-end example gives one group for link a
\* holding [P1, P2] with score 20 (40 doubled) and the side bucket [P3].
C1_ScoreOrder ==
    agg # <<>> =>
        /\ \A i, j \in 1..Len(Groups) :
               i < j => StatedScore2(Groups[i].tweets) >= StatedScore2(Groups[j].tweets)
        /\ Ids(all_tweets) = <<1, 2, 3>> =>
               /\ Len(Groups) = 1
               /\ Groups[1].link = UrlA
               /\ Groups[1].tweets = SubSeq(all_tweets, 1, 2)
               /\ StatedScore2(Groups[1].tweets) = 40
               /\ SideBucket = SubSeq(all_tweets, 3, 3)

C1_Witness == agg # <<>> /\ Ids(all_tweets) = <<1, 2, 3>>

\* C6: a tweet without resolved links is in the side bucket and in no group.
C6_LinklessOnlyInBucket ==
    agg # <<>> =>
        \A n \in 1..Len(all_tweets) :
            all_tweets[n].links = <<>> =>
                /\ all_tweets[n] \in Range(SideBucket)
                /\ GroupsHolding(all_tweets[n]) = {}

C6_Witness ==
    /\ agg # <<>>
    /\ \E n, m \in 1..Len(all_tweets) : all_tweets[n].links = <<>> /\ all_tweets[m].links # <<>>

\* C7: a tweet with N distinct links is in exactly N groups, the groups of its links.
C7_OneGroupPerLink ==
    agg # <<>> =>
        \A n \in 1..Len(all_tweets) :
            LET t == all_tweets[n]
            IN  /\ Cardinality(GroupsHolding(t)) = Cardinality(Range(t.links))
                /\ {Groups[k].link : k \in GroupsHolding(t)} = Range(t.links)

C7_Witness ==
    /\ agg # <<>>
    /\ \E n \in 1..Len(all_tweets) :
          /\ Cardinality(Range(all_tweets[n].links)) = 2
          /\ Cardinality(GroupsHolding(all_tweets[n])) = 2

\* C8: aggregation drops no tweet, and a tweet with a resolved link is never in
\* the side bucket.
C8_NoTweetDropped ==
    agg # <<>> =>
        \A n \in 1..Len(all_tweets) :
            LET t == all_tweets[n]
            IN  /\ GroupsHolding(t) # {} \/ t \in Range(SideBucket)
                /\ t.links # <<>> => t \notin Range(SideBucket)

\* a tweet whose only urls are filtered ones, next to one with a link
C8_Witness ==
    /\ agg # <<>>
    /\ \E n, m \in 1..Len(all_tweets) :
          /\ all_tweets[n].id = 5 /\ all_tweets[n] \in Range(SideBucket)
          /\ all_tweets[m].links # <<>> /\ GroupsHolding(all_tweets[m]) # {}

\* a rate-limit signal without a retry-after hint
RateLimitNoHint == {Msg429, MsgRateCode}

\* the call history "k rate-limit failures, then a success"
FailsThenSucceeds(k) ==
    /\ Len(synth.history) = k + 1
    /\ synth.history[k + 1] = RespOK
    /\ \A n \in 1..k : synth.history[n] \in RateLimitNoHint

\* C2: a summarize() whose remote call fails with a rate-limit signal k < 3 times
\* and then succeeds returns the generated text after exactly k + 1 calls, having
\* waited 15 s before the second and 30 s before the third call.
C2_RetryThenSuccess ==
    \A k \in 0..2 :
        (synth.pc = "done" /\ FailsThenSucceeds(k)) =>
            /\ synth.outcome = Returned(GeneratedText)
            /\ synth.calls = k + 1
            /\ synth.waits = SubSeq(<<15, 30>>, 1, k)

C2_Witness == synth.pc = "done" /\ FailsThenSucceeds(2) /\ synth.waits = <<15, 30>>

\* C3: summarize() never raises: whatever the provider identifier and the remote
\* outcome, it ends by returning a string.
C3_NeverRaises == synth.pc = "done" => synth.outcome[1].kind = "return"

PageFatal(i) == fetch[i].page_fail # "" /\ (IsAuthErr(fetch[i].page_fail) \/ IsRateLimitErr(fetch[i].page_fail))

C5_PartialOnOtherError ==
    \A i \in TaskIds :
        (fetch[i].page_fail # "" /\ ~PageFatal(i)) =>
            /\ fetch[i].pc = "returned"
            /\ fetch[i].exc = ""
            /\ Ids(fetch[i].tweets) = fetch[i].received

C5_Witness ==
    \E i \in TaskIds : fetch[i].page_fail = FTimeout /\ fetch[i].received # <<>>

NoCredential == config.api_key \in {"absent", ""}

\* C9: verify() on a configuration without a credential makes no network call
\* and answers active=false with the missing-credential message.
C9_NoCredentialNoCall ==
    NoCredential =>
        /\ ver.netcalls = 0
        /\ ver.pc = "done" => ver.result = Status(FALSE, "Missing API Key")

FetchActive(i) == fetch[i].pc \in {"delay", "get_list", "v1_show", "owner", "page"}

\* C10: while aggregation or summarization (its retry waits included) executes,
\* no fetch of the run is still in progress.
C10_FetchBarrier ==
    (run.pc \in {"aggregate", "provider", "summarize", "report"} \/ synth.pc \in {"call", "sleep"})
        => \A i \in TaskIds : ~FetchActive(i)

C10_Witness ==
    /\ synth.pc = "sleep"
    /\ Len(run.urls) = 2
    /\ \A i \in TaskIds : fetch[i].pc = "returned"
    /\ Len(all_tweets) >= 2

\* C11: once a fetch of the run has failed (raised on a fatal page error), the
\* run never reaches aggregate, summarize or the report: no aggregation result,
\* no summarize call, no report, and the run ends failed with a non-empty error.
FetchFailed == \E i \in 1..Len(run.urls) : fetch[i].pc = "raised"

C11_FailedFetchAbortsRun ==
    FetchFailed =>
        /\ run.pc \in {"gather", "failed"}
        /\ agg = <<>>
        /\ synth = SynthIdle
        /\ run.last_report = ""
        /\ run.pc = "failed" => run.error # <<>> /\ ~run.running

\* the run has ended failed after one fetch raised while its sibling had returned
C11_Witness ==
    /\ run.pc = "failed"
    /\ run.error # <<>>
    /\ \E i, j \in 1..Len(run.urls) : fetch[i].pc = "raised" /\ fetch[j].pc = "returned"

\* C12: a finished run is either a success (report published, no error, made
\* from a non-empty list of fetched tweets and a generated text that is neither
\* empty nor a failure string) or a failure (non-empty error, no report).
RunFinished == run.pc \in {"done", "failed"}

C12_TwoOutcomes ==
    RunFinished =>
        \/ /\ run.pc = "done"
           /\ run.last_report # "" /\ run.error = <<>>
           /\ all_tweets # <<>>
           /\ synth.pc = "done" /\ synth.outcome[1].kind = "return"
           /\ synth.outcome[1].value # <<>>
           /\ ~StartsWithError(synth.outcome[1].value)
        \/ /\ run.pc = "failed"
           /\ run.error # <<>> /\ run.last_report = ""

RateLimitShaped == {Msg429, MsgRateCode, MsgRetry20, MsgRetry70}

\* C13: whatever the backend, a summarize call whose every attempt met a
\* rate-limit-shaped error has made exactly max_attempts calls, with a wait
\* between consecutive calls, and has returned a rate-limit failure string.
C13_EveryBackendRetries ==
    (/\ synth.pc = "done"
     /\ synth.history # <<>>
     /\ \A n \in 1..Len(synth.history) : synth.history[n] \in RateLimitShaped)
    => /\ synth.calls = max_attempts
       /\ Len(synth.waits) = max_attempts - 1
       /\ synth.outcome[1].kind = "return"
       /\ StartsWithError(synth.outcome[1].value)
       /\ ErrHas(synth.outcome[1].value, "rate limit")

\* C14: a 401/credential-shaped error ends the summarize call at once: it is
\* the last call made, no wait follows it, and a failure string is returned;
\* met by the first call, it leaves exactly one call and no wait at all.
C14_CredentialErrorNotRetried ==
    \A n \in 1..Len(synth.history) :
        synth.history[n] = Msg401 =>
            /\ n = Len(synth.history)
            /\ synth.calls = n
            /\ Len(synth.waits) = n - 1
            /\ synth.pc = "done"
            /\ synth.outcome[1].kind = "return"
            /\ StartsWithError(synth.outcome[1].value)

\* the retrying backend met a 401 on its first call and gave up
C14_Witness ==
    /\ Route(provider) = "_openai_compatible"
    /\ synth.pc = "done"
    /\ synth.history = <<Msg401>>
    /\ synth.calls = 1 /\ synth.waits = <<>>
    /\ StartsWithError(synth.outcome[1].value)

ContextLengthShaped == {MsgContext, MsgMaxCtx}

\* C15: a context-length-shaped error met by the first call ends the summarize
\* call with one call, no wait, and the prompt-too-large message as the result.
C15_PromptTooLarge ==
    (/\ synth.history # <<>>
     /\ synth.history[1] \in ContextLengthShaped)
    => /\ synth.pc = "done"
       /\ synth.calls = 1
       /\ synth.waits = <<>>
       /\ synth.outcome[1].kind = "return"
       /\ \E label \in KnownProviders \cup {BackendLabel(Route(provider))} :
             synth.outcome[1].value =
                <<"Error with ", label, ": Prompt too large for this model's context window.">>

\* C16: the tweet dict extracted from a pure reshare (no entities of its own)
\* of a post with one external link and one image has the inner post's link
\* set and the inner post's media list. In the catalog, tweet 8 is the pure
\* reshare and tweet 9 the post it reshares.
C16_ReshareInheritsLinksAndMedia ==
    \A n \in 1..Len(fetch[1].tweets) :
        fetch[1].tweets[n].id = 8 =>
            /\ Range(fetch[1].tweets[n].links) = ResolvedLinks(Raw(9))
            /\ Range(fetch[1].tweets[n].links) = {UrlA}
            /\ fetch[1].tweets[n].media = MediaOf(Raw(9))
            /\ fetch[1].tweets[n].media =
                  <<[type |-> "photo", url |-> Photo1.media_url_https, thumbnail |-> "", id |-> "m1"]>>

\* the reshare and the post it reshares have both been extracted by one fetch
C16_Witness ==
    /\ Len(fetch[1].tweets) = 2
    /\ fetch[1].tweets[1].id = 8
    /\ fetch[1].tweets[2].id = 9
    /\ fetch[1].tweets[1].media = fetch[1].tweets[2].media
    /\ fetch[1].tweets[1].media # <<>>

\* the elements rendered in one table row, in page order
RECURSIVE RowElements(_)
RowElements(tweet_list) ==
    IF tweet_list = <<>> THEN <<>> ELSE Head(tweet_list).media_html \o RowElements(Tail(tweet_list))

\* C17: in the rendered row of a link group, no two media elements have the
\* same dedup key (thumbnail URL when present, else the primary URL).
C17_OneElementPerMediaKey ==
    report # <<>> =>
        \A g \in 1..Len(report[1].table_rows) :
            LET els == RowElements(report[1].table_rows[g].tweet_list)
            IN  \A a, b \in 1..Len(els) : url_key(els[a].m) = url_key(els[b].m) => a = b

\* a rendered group two of whose tweets carry media with one key, shown once
C17_Witness ==
    /\ report # <<>>
    /\ \E g \in 1..Len(Groups) :
          /\ \E a, b \in 1..Len(Groups[g].tweets) :
                /\ a < b
                /\ \E ma \in Range(Groups[g].tweets[a].media), mb \in Range(Groups[g].tweets[b].media) :
                      url_key(ma) = url_key(mb)
          /\ Len(RowElements(report[1].table_rows[g].tweet_list)) = 1

\* the links of the input in scanning order: tweet by tweet, link by link
RECURSIVE ScannedLinks(_)
ScannedLinks(tweets) ==
    IF tweets = <<>> THEN <<>> ELSE Head(tweets).links \o ScannedLinks(Tail(tweets))

FirstSeen(link) ==
    LET scan == ScannedLinks(all_tweets)
    IN  CHOOSE i \in 1..Len(scan) : scan[i] = link /\ \A j \in 1..(i - 1) : scan[j] # link

\* C18: groups of equal score stand in the order in which their links were
\* first seen while scanning the input, and the tweets of each group are the
\* input tweets holding its link, in input order.
C18_StableOrder ==
    agg # <<>> =>
        /\ \A i, j \in 1..Len(Groups) :
              (i < j /\ StatedScore2(Groups[i].tweets) = StatedScore2(Groups[j].tweets))
              => FirstSeen(Groups[i].link) < FirstSeen(Groups[j].link)
        /\ \A i \in 1..Len(Groups) :
              Groups[i].tweets = SelectSeq(all_tweets, LAMBDA t : Groups[i].link \in Range(t.links))

\* two groups of equal score, the link seen first being the later in name
\* order, each holding the same two tweets in input order
C18_Witness ==
    /\ agg # <<>>
    /\ Len(all_tweets) = 2
    /\ all_tweets[1].links = <<UrlB, UrlA>> /\ all_tweets[2].links = <<UrlA, UrlB>>
    /\ Len(Groups) = 2
    /\ Groups[1].link = UrlB /\ Groups[2].link = UrlA
    /\ StatedScore2(Groups[1].tweets) = StatedScore2(Groups[2].tweets)
    /\ Groups[1].tweets = all_tweets /\ Groups[2].tweets = all_tweets

HostedProviders == {"claude", "openai", "groq", "gemini", "deepseek", "openrouter", "grok"}

\* C20: for an unknown provider identifier, or a hosted backend without its
\* credential, summarize makes no remote call and ends in an error outcome
\* (an exception or a failure string).
C20_FailsBeforeAnyCall ==
    (provider \notin KnownProviders \/ (provider \in HostedProviders /\ NoCredential))
    => /\ synth.calls = 0
       /\ synth.pc = "done" =>
             \/ synth.outcome[1].kind = "raise"
             \/ StartsWithError(synth.outcome[1].value)

\* the expanded urls whose host is one of the platform's own domains
\* (x.com, pbs.twimg.com, t.co)
PlatformHosted == {UrlX, UrlImg, Short1, Short2, Short3}

\* C25: in every extracted tweet dict, a resolved link of the payload is left
\* out of the link set exactly when its host is a platform domain; a link of
\* any other host is in the set.
C25_ExcludedIffPlatformHost ==
    \A n \in 1..Len(fetch[1].tweets) :
        LET t == fetch[1].tweets[n]
        IN  \A m \in Range(UrlMapOf(Raw(t.id))) :
                (m.v \notin Range(t.links)) <=> (m.v \in PlatformHosted)

\* the text the statement of C26 describes for a payload and a link set: every
\* short link replaced by its expanded form when that is in the link set, by
\* its display form otherwise
TextByLinkSet(raw, links) ==
    [i \in 1..Len(raw.text) |->
        IF \E m \in Range(UrlMapOf(raw)) : m.k = raw.text[i]
        THEN LET expanded == DictGet(UrlMapOf(raw), raw.text[i])
             IN  IF expanded \in links THEN expanded
                 ELSE DictGet(DisplayMapOf(raw), raw.text[i])
        ELSE raw.text[i]]

\* C26: the display text of every extracted tweet dict has each short link
\* replaced by the expanded form when the link is in the dict's link set and
\* by the display form when it is not.
C26_TextAgreesWithLinkSet ==
    \A n \in 1..Len(fetch[1].tweets) :
        LET t == fetch[1].tweets[n]
        IN  t.text = TextByLinkSet(Raw(t.id), Range(t.links))

\* the media entities of a payload in the order outer tweet, retweeted_tweet, quote
EntitiesInOrder(raw) == raw.media \o raw.retweeted_media \o raw.quote_media

\* C27: the media list of every extracted tweet dict has no two entries of one
\* id, and each entry is taken from the first entity of that id in the order
\* outer tweet, retweeted_tweet, quote.
C27_OneEntryPerMediaIdFirstWins ==
    \A n \in 1..Len(fetch[1].tweets) :
        LET t == fetch[1].tweets[n]
            ents == EntitiesInOrder(Raw(t.id))
        IN  /\ \A i, j \in 1..Len(t.media) : t.media[i].id = t.media[j].id => i = j
            /\ \A i \in 1..Len(t.media) :
                   LET first == ents[CHOOSE k \in 1..Len(ents) :
                                        /\ ents[k].id_str = t.media[i].id
                                        /\ \A h \in 1..(k - 1) : ents[h].id_str # t.media[i].id]
                   IN  IF t.media[i].type = "photo"
                       THEN t.media[i].url = first.media_url_https
                       ELSE t.media[i].thumbnail = first.media_url_https

\* a payload with one identifier in the outer tweet, its reshare and its quote,
\* and another in the reshare and the quote only, has been extracted
C27_Witness ==
    \E n \in 1..Len(fetch[1].tweets) :
        /\ fetch[1].tweets[n].id = 12
        /\ Len(EntitiesInOrder(Raw(12))) = 5
        /\ fetch[1].tweets[n].media =
              <<[type |-> "photo", url |-> Photo1.media_url_https, thumbnail |-> "", id |-> "m1"],
                [type |-> "photo", url |-> Photo2.media_url_https, thumbnail |-> "", id |-> "m2"]>>

\* C28: every payload the endpoint has sent to the fetch has a tweet dict in
\* the fetch's result, in the order sent: a payload with a malformed sub-field
\* costs neither its own dict nor those of the payloads after it.
C28_EveryPayloadYieldsPost ==
    [n \in 1..Len(fetch[1].tweets) |-> fetch[1].tweets[n].id] = fetch[1].received

\* C29: an extracted tweet dict whose payload has no card of its own and whose
\* reshared payload (else its quoted payload) has a card with a title carries
\* that embedded card.
C29_EmbeddedCardUsed ==
    \A n \in 1..Len(fetch[1].tweets) :
        LET t == fetch[1].tweets[n]
            raw == Raw(t.id)
        IN  extract_card(raw.card) = <<>> =>
               /\ extract_card(raw.retweeted_card) # <<>> => t.card = raw.retweeted_card
               /\ (extract_card(raw.retweeted_card) = <<>> /\ extract_card(raw.quote_card) # <<>>)
                     => t.card = raw.quote_card

C23_PageRequests ==
    [][\A i \in TaskIds :
          fetch'[i].pages = fetch[i].pages + 1 =>
             LET f == fetch[i]
                 missing == f.max_tweets - Len(f.tweets)
             IN  /\ fetch'[i].req.count = IF PageCap <= missing THEN PageCap ELSE missing
                 /\ fetch'[i].req.cursor =
                       IF f.answered = <<>> THEN "" ELSE f.answered[1].next_cursor
                 /\ Len(f.tweets) < f.max_tweets
                 /\ f.answered # <<>> =>
                       /\ f.answered[1].size > 0
                       /\ f.answered[1].next_cursor # ""]_vars

\* a second page request was issued with the cursor of the first answer and
\* the page size at the cap
C23_Witness ==
    /\ fetch[1].pages = 2
    /\ fetch[1].max_tweets > PageCap
    /\ fetch[1].req = [count |-> PageCap, cursor |-> "cursor-A"]
    /\ Len(fetch[1].tweets) > 0

\* C24: a fetch that has ended made at most max_tweets page requests and
\* holds at most max_tweets posts, whatever the endpoint answered.
C24_AtMostMaxCount ==
    fetch[1].pc \in {"returned", "raised"} =>
        /\ fetch[1].pages <= fetch[1].max_tweets
        /\ Len(fetch[1].tweets) <= fetch[1].max_tweets

\* C21: construction of the fetcher never raises, and a fetcher constructed
\* over an absent or unparsable cache document starts with the empty
\* handle-to-id map.
C21_CacheLoadNeverFails ==
    /\ prof.pc # "init_raised"
    /\ (prof.pc = "ready" /\ prof.disk.kind \in {"absent", "corrupt"})
         => prof.user_cache = CacheDoc("dict", {})

\* a fetcher has been constructed over a cache document that is not JSON
C21_Witness ==
    /\ prof.pc = "ready"
    /\ prof.disk.kind = "corrupt"
    /\ prof.user_cache.handles = {}

\* C22: get_user_memberships never raises; what it returns is a list whose
\* entries have exactly the keys name, owner and id, with a non-empty name;
\* a call that met a failure returns the empty list.
C22_MembershipsNeverRaise ==
    /\ prof.pc \in {"none", "ready", "page", "returned"}
    /\ \A n \in 1..Len(prof.result) :
          /\ DOMAIN prof.result[n] = {"name", "owner", "id"}
          /\ prof.result[n].name # ""
    /\ prof.failed => (prof.pc = "returned" /\ prof.result = <<>>)

\* a call returned two entries over two pages, one of them from a batch that
\* also held an entry without name
C22_Witness ==
    /\ prof.pc = "returned"
    /\ ~prof.failed
    /\ prof.pages = 2
    /\ Len(prof.result) = 2
    /\ prof.result[2].owner = "Unknown"

\* C31: every wait between two attempts is at most 60 seconds: after an error
\* with a parseable 'retry after N' it is the smaller of N + 2 and 60, after
\* any other retried error it is the schedule entry of that attempt.
C31_WaitBoundedByCeiling ==
    \A n \in 1..Len(synth.waits) :
        LET hint == RetryAfterMatch(synth.history[n])
        IN  /\ synth.waits[n] <= 60
            /\ synth.waits[n] = IF hint >= 0
                                THEN (IF hint + 2 <= 60 THEN hint + 2 ELSE 60)
                                ELSE retry_delays[n]

\* two waits were made: one after a hint above the ceiling, one from the schedule
C31_Witness ==
    /\ Len(synth.waits) = 2
    /\ RetryAfterMatch(synth.history[1]) > 60
    /\ synth.waits[1] = 60
    /\ RetryAfterMatch(synth.history[2]) < 0
    /\ synth.waits[2] = retry_delays[2]

\* errors that are neither rate-limit-, credential- nor context-length-shaped
TransientShaped == {MsgTimeout, Msg500}

C33_FailureMarkedSuccessNonEmpty ==
    synth.pc = "done" =>
        /\ synth.outcome[1].kind = "return"
        /\ IF synth.history # <<>> /\ synth.history[Len(synth.history)] \in {RespOK, RespEmpty}
           THEN synth.outcome[1].value # <<>>
           ELSE /\ StartsWithError(synth.outcome[1].value)
                /\ report = <<>>

\* C34: a verify() call that answered active = true made at least one remote
\* call, and none of its remote calls reported a failure.
C34_ActiveOnlyAfterConfirmingCall ==
    (ver.pc = "done" /\ ver.result[1].active) =>
        /\ ver.netcalls >= 1
        /\ \A n \in 1..Len(ver.answers) : ver.answers[n] \in {RespOK, RespNoModel}

\* C35: the endpoint a summarize call has resolved is the configured endpoint
\* whenever one is configured, for every backend.
C35_ConfiguredEndpointUsed ==
    (synth.pc # "idle" /\ Route(provider) # "unknown" /\ config.endpoint \notin {"absent", ""})
        => synth.endpoint = config.endpoint

\* C36: every handle a persisted cache document has once held is in the
\* document now, under every interleaving of the two fetchers.
C36_PersistedEntryNeverLost ==
    prof.persisted \subseteq prof.disk.handles

\* C36, as the code has it: the document changes only in a step in which one
\* fetcher adds an entry to its own map, and then it becomes that fetcher's
\* whole map, which holds everything that fetcher had before (last write
\* wins); a step that adds no entry (a failed resolution, a cache hit) leaves
\* the document as it was.
C36_LastWriteWins ==
    [][prof'.disk # prof.disk =>
         \/ /\ prof'.user_cache # prof.user_cache
            /\ prof'.disk = prof'.user_cache
            /\ prof.user_cache.handles \subseteq prof'.disk.handles
         \/ /\ prof.peer # <<>>
            /\ prof'.peer # prof.peer
            /\ prof'.disk = prof'.peer[1]
            /\ prof.peer[1].handles \subseteq prof'.disk.handles]_vars

\* the second fetcher's write has replaced a document that held the first
\* fetcher's entry
C36_Witness ==
    /\ prof.peer # <<>>
    /\ prof.user_cache = CacheDoc("dict", {"elonmusk"})
    /\ prof.peer[1] = CacheDoc("dict", {"nasa"})
    /\ "elonmusk" \in prof.persisted
    /\ prof.disk = CacheDoc("dict", {"nasa"})

----------------------------------------------------------------------------
(* POST /api/run under ThreadingHTTPServer: one handler thread per request.
   `handlers` is the position of each handler thread, `tasks` the number of
   run_task threads that were started and have not returned yet.  The test
   of app_state['running'] and the update that sets it are two statements
   with no lock around them, so another thread may run between them. *)

\* web_ui.py 257-258 and 262-263: the handler reads app_state['running']
PostRunCheck(h) ==
    /\ run.handlers[h] = "idle"
    /\ run' = [run EXCEPT !.handlers[h] =
                 IF ~run.running THEN "admitted" ELSE "rejected"]
    /\ UNCHANGED <<all_tweets, agg, provider, config, synth, ver, fetch, report, prof>>

\* web_ui.py 259-261: app_state.update(...), Thread(target=run_task).start()
PostRunStart(h) ==
    /\ run.handlers[h] = "admitted"
    /\ run.tasks < MaxRuns
    /\ run' = [run EXCEPT !.handlers[h] = "idle", !.running = TRUE,
                          !.error = <<>>, !.last_report = "",
                          !.tasks = @ + 1]
    /\ UNCHANGED <<all_tweets, agg, provider, config, synth, ver, fetch, report, prof>>

\* web_ui.py 262-263: {'success': False, 'error': 'Already running'}
PostRunReject(h) ==
    /\ run.handlers[h] = "rejected"
    /\ run' = [run EXCEPT !.handlers[h] = "idle"]
    /\ UNCHANGED <<all_tweets, agg, provider, config, synth, ver, fetch, report, prof>>

\* web_ui.py 296-412: a run task returns, by the report or by the except
\* branch; both leave app_state['running'] False
RunTaskEnds ==
    /\ run.tasks > 0
    /\ \E failed \in BOOLEAN :
         run' = [run EXCEPT !.tasks = @ - 1, !.running = FALSE,
                            !.error = IF failed THEN <<"failed">> ELSE @,
                            !.last_report = IF failed THEN @ ELSE "summary.html"]
    /\ UNCHANGED <<all_tweets, agg, provider, config, synth, ver, fetch, report, prof>>

InitServer ==
    /\ all_tweets = <<>>
    /\ agg = <<>>
    /\ provider = "unset"
    /\ config = [api_key |-> "absent", endpoint |-> "absent"]
    /\ synth = SynthIdle
    /\ ver = VerIdle
    /\ fetch = [i \in TaskIds |-> NewFetch(1)]
    /\ run = RunIdle
    /\ report = <<>>
    /\ prof = ProfNone

NextServer ==
    \/ \E h \in 1..MaxRequests : PostRunCheck(h)
    \/ \E h \in 1..MaxRequests : PostRunStart(h)
    \/ \E h \in 1..MaxRequests : PostRunReject(h)
    \/ RunTaskEnds

SpecServer == InitServer /\ [][NextServer]_vars

\* C38: at most one run task executes at any time, whatever the interleaving
\* of the concurrent POST /api/run requests, and the running flag is set
\* for as long as a run task executes.
C38_AtMostOneRun ==
    /\ run.tasks <= 1
    /\ (run.tasks > 0 => run.running)

----------------------------------------------------------------------------
(* Termination of the memberships loop.  The endpoint answers every request
   with a page that has no named list (or with no page, or an exception);
   `pages` counts the requests up to MaxPages and stays there, and every
   page carries a cursor, so that a loop that goes on is a cycle of the
   state graph. *)

\* response['lists'] with nothing the for loop of lines 145-154 appends
NamelessBatches == {<<>>, <<ListEntry("", "dict", "bob", "102")>>}

NamelessResponses ==
    {r \in MembershipResponses : r.kind # "lists"}
        \cup [kind : {"lists"}, lists : NamelessBatches,
              next_cursor : {"absent", "0", "", "1777", "1888"}]

\* lines 133-161: one pass of the while loop against such an endpoint
MembershipsLoop ==
    /\ prof.pc = "page"
    /\ \E resp \in NamelessResponses :
         prof' = [memberships_page(prof, resp) EXCEPT !.pages = Min(@, MaxPages)]
    /\ UNCHANGED <<all_tweets, agg, provider, config, synth, ver, fetch, run, report>>

NextProfilerLive ==
    \/ Construct
    \/ \E username \in Usernames : GetUserMemberships(username)
    \/ MembershipsLoop

\* the coroutine is resumed whenever its request has been answered
SpecProfilerLive == InitProfiler /\ [][NextProfilerLive]_vars /\ WF_vars(MembershipsLoop)

\* C39: get_user_memberships terminates for every sequence of responses of
\* the memberships endpoint: a call that has entered its loop returns.
C39_MembershipsTerminates == (prof.pc = "page") ~> (prof.pc = "returned")

=============================================================================
